---- MODULE Spec2Model ----
(***************************************************************************)
(* libactors: the actor runtime (Core registry, Actor serve loop over a    *)
(* MultiWaiter, EnvelopeTracker, ActorProxy.tell / ask).                   *)
(*                                                                         *)
(* Scheduling is asyncio's: one event loop, cooperative tasks.  A step of  *)
(* the model is the code a task runs between two suspension points, so     *)
(* every action is atomic exactly where the code cannot be interleaved.    *)
(* The tasks are: one serve task per actor (Service._service_worker),      *)
(* the two MultiWaiter tasks of each serve loop (wait_stop and queue.get), *)
(* client tasks that tell / ask / wait_until_initialized, and one task     *)
(* that calls Core.shutdown.  Client tasks are not cancelled while they    *)
(* await a tracker.                                                        *)
(***************************************************************************)
EXTENDS Integers, Sequences, FiniteSets, TLC

\* ------------------------------------------------------------------ bounds
MaxEnvelopes == 2      \* envelopes posted in one run (by clients and by Core)

\* ------------------------------------------------------- scenario universes
ActorIds == {"/a"}                \* full ids create_actor is called with
Senders == {"/s1", "/s2"}         \* identities of the posting contexts
DataValues == {"x", "y"}          \* DataMessage.data

CORE_IDENTITY == "/"

\* The result values a tracker's future can hold.
None == [k |-> "none", v |-> ""]
UNHANDLED == [k |-> "unhandled", v |-> ""]
Data(d) == [k |-> "data", v |-> d]

\* Messages of the test suite and the framework's ShutdownMessage.
DataMessage(d) == [type |-> "DataMessage", data |-> d]
ErringMessage == [type |-> "ErringMessage", data |-> ""]
UnhandledMessage == [type |-> "UnhandledMessage", data |-> ""]
ShutdownMessage == [type |-> "ShutdownMessage", data |-> ""]

\* What an actlet's function returns: "" stands for a value that is not a
\* Message (None), any other string d for the Message DataMessage(d).
ActletResults == {"", "x"}
isinstance_Message(result) == result # ""
ActletDoneMessage(result) == [type |-> "ActletDoneMessage", data |-> result]

\* The framework's TimerDoneMessage, the message a timer sends (the test
\* suite's SomeMessage), and the Message an actlet result string stands for:
\* "TimerDoneMessage" for TimerDoneMessage(), d for DataMessage(d).
TimerDoneMessage == [type |-> "TimerDoneMessage", data |-> ""]
SomeMessage == [type |-> "SomeMessage", data |-> ""]
ResultMessage(result) ==
    IF result = "TimerDoneMessage" THEN TimerDoneMessage ELSE DataMessage(result)

ClientMessages ==
    {DataMessage(d) : d \in DataValues}
        \cup {ErringMessage, UnhandledMessage, ShutdownMessage}

VARIABLES
    core_running,         \* Core._running
    core_actors,          \* keys of Core._actors
    core_pc,              \* the Core.shutdown caller: "idle" | "waiting"
    core_proxies,         \* actors whose wait_until_shutdown it gathers
    pc,                   \* position of each actor's serve task
    queue,                \* Actor._queue: envelope ids, head first
    unfinished_tasks,     \* asyncio.Queue's put / task_done counter
    stop_event,           \* Service._stop_event
    ready_event,          \* Service._ready_event
    done_event,           \* Service._done_event
    initialize_event,     \* Actor._initialize_event
    initialize_exception, \* Actor._initialize_exception is not None
    shutdown_event,       \* Actor._shutdown_event
    task_exception,       \* exception the serve task ended with
    waiters,              \* the serve loop's MultiWaiter: stop / get tasks
    current,              \* envelope id whose handler serve awaits (0: none)
    env,                  \* every envelope posted, in post order (id = index)
    tracker,              \* tracker._fut of each envelope
    asker,                \* the Proxy.ask call behind each envelope, if any
    calls,                \* handler invocations made for each envelope
    sets,                 \* set_result / set_exception calls on each tracker
    running,              \* handler invocations of each actor in progress
    init_sets,            \* initialize_event.set() calls of each actor
    initialize_result,    \* how initialize() ended: "none" | "returned" | "raised"
    wi,                   \* wait_until_initialized caller of each actor
    actlets,              \* Actor._actlets: qualified name -> actlet
    actlet,               \* every Actlet constructed, in construction order
    cancels,              \* actlet.cancel() coroutines handle_shutdown gathers
    call,                 \* the last Core / Actor API call and how it ended
    heap,                 \* Python objects by address (object-level model)
    sender_messages,      \* addresses of the messages a sender constructed
    sender_envelopes,     \* addresses of the envelopes a sender constructed
    mailbox,              \* Actor._queue of each receiver, as object addresses
    handling,             \* the queue entry each receiver's handler works on
    router,               \* a Router on its own: _handlers, _handled_messages_names
    classes,              \* the classes ActorMetaclass has made, in order
    service,              \* a Service on its own: worker position, events
    wait_ready_caller,    \* a client of Service.wait_ready()
    multi_waiter,         \* a MultiWaiter on its own: _objects, _tasks, tasks
    waiter_caller,        \* the caller of its wait_first / reset
    context_log,          \* a Context on its own: the bindings of Context._log
    bind_scopes           \* the old_log of each open bind() scope, by task

vars ==
    << core_running, core_actors, core_pc, core_proxies,
       pc, queue, unfinished_tasks, stop_event, ready_event, done_event,
       initialize_event, initialize_exception, shutdown_event, task_exception,
       waiters, current, env, tracker, asker, calls, sets, running, init_sets,
       initialize_result, wi, actlets, actlet, cancels, call,
       heap, sender_messages, sender_envelopes, mailbox, handling,
       router, classes, service, wait_ready_caller, multi_waiter,
       waiter_caller, context_log, bind_scopes >>

core_vars == << core_running, core_actors, core_pc, core_proxies >>
event_vars == << stop_event, ready_event, done_event, initialize_event,
                 initialize_exception, shutdown_event, task_exception, init_sets,
                 initialize_result >>
post_vars == << env, tracker, asker, calls, sets >>
actlet_vars == << actlets, actlet, cancels >>
\* The state of the units modelled on their own, and all the rest.
object_vars == << heap, sender_messages, sender_envelopes, mailbox, handling >>
router_vars == << router, classes >>
service_vars == << service, wait_ready_caller >>
waiter_vars == << multi_waiter, waiter_caller >>
context_vars == << context_log, bind_scopes >>
unit_vars == << object_vars, router_vars, service_vars, waiter_vars, context_vars >>
actor_vars == << core_vars, pc, queue, unfinished_tasks, event_vars, waiters,
                current, post_vars, running, wi, actlet_vars >>
main_vars == << actor_vars, call >>
\* What the steps of one unit leave alone.
outside_objects == << main_vars, router_vars, service_vars, waiter_vars, context_vars >>
outside_router == << actor_vars, object_vars, service_vars, waiter_vars, context_vars >>
outside_service == << main_vars, object_vars, router_vars, waiter_vars, context_vars >>
outside_waiter == << main_vars, object_vars, router_vars, service_vars, context_vars >>
outside_context == << main_vars, object_vars, router_vars, service_vars, waiter_vars >>

Envelopes == 1..Len(env)

\* The object-level model: the values a message's list holds, and the actors
\* messages are told to.
Payloads == {"a", "b", "c"}
Receivers == {"/r1", "/r2"}

\* The Context on its own: the keys and values bound to its logger, and the
\* cooperative tasks that share the context.
LogKeys == {"foo", "one"}
LogValues == {"bar", "2"}
Unbound == "unbound"
BindTasks == {"t1", "t2"}
\* Context(core, log, identity): the logger before any bind() scope (the
\* identity binding, which no scope of the model rebinds, is left out).
NewLog == [k \in LogKeys |-> Unbound]

\* ----------------------------------------------------------------- Router
\* The router of the actor class under test: the base Actor's built-in
\* ShutdownMessage handler and the test suite's DataMessage / ErringMessage
\* handlers, the base Actor's ActletDoneMessage and TimerDoneMessage handlers
\* and the timer tests' SomeMessage handler.  UnhandledMessage has no entry.
Handlers ==
    [ShutdownMessage |-> "handle_shutdown",
     ActletDoneMessage |-> "handle_actlet_done",
     TimerDoneMessage |-> "handle_timer_done",
     SomeMessage |-> "handler",
     DataMessage |-> "data_message_handler",
     ErringMessage |-> "erring_message_handler"]

NoHandler == "None"

\* Router.match: lookup by the exact type of the message.
match(message) ==
    IF message.type \in DOMAIN Handlers THEN Handlers[message.type] ELSE NoHandler

\* What a handler does when it finishes: the value it returns or that it raises.
HandlerOutcome(handler, message) ==
    CASE handler = "data_message_handler" -> [raises |-> FALSE, value |-> Data(message.data)]
      [] handler = "erring_message_handler" -> [raises |-> TRUE, value |-> None]
      [] OTHER -> [raises |-> FALSE, value |-> None]

\* ------------------------------------------------------- EnvelopeTracker
NewTracker == [state |-> "pending", value |-> None]

\* asyncio.Future.set_result / set_exception: only a pending future takes a
\* value (otherwise InvalidStateError is raised and the future is unchanged).
set_result(fut, value) ==
    IF fut.state = "pending" THEN [state |-> "result", value |-> value] ELSE fut

set_exception(fut) ==
    IF fut.state = "pending" THEN [state |-> "exception", value |-> None] ELSE fut

\* EnvelopeTracker.is_handled
is_handled(fut) == fut.value # UNHANDLED

\* ------------------------------------------------------------ asyncio.Queue
\* Mutant: the item is put at the head of the queue (LIFO).
put_front(q, item) == << item >> \o q

put_nowait(q, item) == Append(q, item)

\* A record of an API call: the operation, its arguments and how it ended
\* (the exception raised, or "none"), and for a call that returns a string
\* the value returned.
Call(op, a, b, raised) ==
    [op |-> op, a |-> a, b |-> b, raised |-> raised, value |-> ""]
Returned(op, a, b, value) ==
    [op |-> op, a |-> a, b |-> b, raised |-> "none", value |-> value]
NoCall == Call("none", "", "", "none")

\* ------------------------------------------------------------ actlets map
\* Names create_actlet is called with, and the qualified names of the map.
ActletNames == {"n"}
TimerNames == {"t"}

generate_actlet_name(identity, name) == identity \o "/actlet/" \o name
generate_timer_name(name) == "timer/" \o name

QualifiedNames(a) ==
    {generate_actlet_name(a, name) :
        name \in ActletNames \cup {generate_timer_name(t) : t \in TimerNames}}

\* Actor._actlets maps a qualified name to an actlet (its index in `actlet`);
\* 0 stands for a name that is not a key of the map.
NoActlets(a) == [q \in QualifiedNames(a) |-> 0]
values(map) == {map[q] : q \in DOMAIN map} \ {0}

Keys(seq) == {seq[i] : i \in DOMAIN seq}

Remove(seq, x) == SelectSeq(seq, LAMBDA y : y # x)

\* ------------------------------------------------------------------ Service
\* A Service on its own, with hooks that may suspend, return or raise, a
\* client that stops it, and a task that may be cancelled from outside (as
\* the event loop does when it shuts down).  Fields of `service`:
\*   pc: where _service_worker is: "none" (not started) | "created" |
\*       "setup" | "serve" | "teardown" (suspended in that hook) | "ended"
\*   task: "none" | "pending" | "returned" | "raised" | "cancelled"
\*   must_cancel: task.cancel() was called and not yet delivered
\*   setup_called: the local of _service_worker
\*   teardown_calls: calls of teardown()
\*   exc: the exception the try block ended with, while finally runs
\*   ready_event, stop_event, done_event: the three events
\*   callback_ran: the done callback of the task was called
NewService ==
    [pc |-> "none", task |-> "none", must_cancel |-> FALSE, setup_called |-> FALSE,
     teardown_calls |-> 0, exc |-> "none", ready_event |-> FALSE,
     stop_event |-> FALSE, done_event |-> FALSE, callback_ran |-> FALSE]

\* ------------------------------------------------------------------- Init
\* Core() with no actor created.  An actor's entries hold what Actor.__init__
\* and Service.__init__ set; they are untouched until create_actor builds it.
NoWaiters == [stop |-> "none", get |-> "none", result |-> 0]

Init ==
    /\ core_running = TRUE
    /\ core_actors = << >>
    /\ core_pc = "idle"
    /\ core_proxies = {}
    /\ pc = [a \in ActorIds |-> "none"]
    /\ queue = [a \in ActorIds |-> << >>]
    /\ unfinished_tasks = [a \in ActorIds |-> 0]
    /\ stop_event = [a \in ActorIds |-> FALSE]
    /\ ready_event = [a \in ActorIds |-> FALSE]
    /\ done_event = [a \in ActorIds |-> FALSE]
    /\ initialize_event = [a \in ActorIds |-> FALSE]
    /\ initialize_exception = [a \in ActorIds |-> FALSE]
    /\ shutdown_event = [a \in ActorIds |-> FALSE]
    /\ task_exception = [a \in ActorIds |-> "none"]
    /\ waiters = [a \in ActorIds |-> NoWaiters]
    /\ current = [a \in ActorIds |-> 0]
    /\ env = << >>
    /\ tracker = << >>
    /\ asker = << >>
    /\ calls = << >>
    /\ sets = << >>
    /\ running = [a \in ActorIds |-> {}]
    /\ init_sets = [a \in ActorIds |-> 0]
    /\ initialize_result = [a \in ActorIds |-> "none"]
    /\ wi = [a \in ActorIds |-> [st |-> "idle", last |-> "none"]]
    /\ actlets = [a \in ActorIds |-> NoActlets(a)]
    /\ actlet = << >>
    /\ cancels = [a \in ActorIds |-> {}]
    /\ call = NoCall
    /\ heap = << >>
    /\ sender_messages = {}
    /\ sender_envelopes = {}
    /\ mailbox = [receiver \in Receivers |-> << >>]
    /\ handling = [receiver \in Receivers |-> << >>]
    /\ router = [handlers |-> << >>, names |-> << >>]
    /\ classes = << >>
    /\ service = NewService
    /\ wait_ready_caller = [st |-> "idle", last |-> "none"]
    /\ multi_waiter = [objects |-> << >>, tasks |-> {}, ops |-> << >>]
    /\ waiter_caller = [op |-> "none", pc |-> "idle", gathered |-> {}, creating |-> {},
                        returned |-> {}, raised |-> "none"]
    /\ context_log = NewLog
    /\ bind_scopes = [t \in BindTasks |-> << >>]

\* ------------------------------------------------------------- Actor.post
\* One envelope per receiver of `receivers` (a sequence of distinct actors),
\* posted in that order without a suspension in between: Actor.post copies the
\* envelope, builds a fresh tracker and put_nowait()s the pair.
Index(seq, x) == CHOOSE i \in DOMAIN seq : seq[i] = x

NewEnvelope(id, sender, receiver, message) ==
    [id |-> id, sender |-> sender, receiver |-> receiver, message |-> message]

post(receivers, sender, message, ask) ==
    LET n == Len(receivers)
        base == Len(env)
    IN  /\ env' = env \o [i \in 1..n |->
                            NewEnvelope(base + i, sender, receivers[i], message)]
        /\ tracker' = tracker \o [i \in 1..n |-> NewTracker]
        /\ asker' = asker \o [i \in 1..n |->
                                [st |-> IF ask THEN "waiting" ELSE "tell",
                                 value |-> None]]
        /\ calls' = calls \o [i \in 1..n |-> 0]
        /\ sets' = sets \o [i \in 1..n |-> 0]
        /\ queue' = [a \in ActorIds |->
                        IF a \in Keys(receivers)
                            THEN put_nowait(queue[a], base + Index(receivers, a))
                            ELSE queue[a]]
        /\ unfinished_tasks' = [a \in ActorIds |->
                        IF a \in Keys(receivers)
                            THEN unfinished_tasks[a] + 1
                            ELSE unfinished_tasks[a]]

\* Envelopes that handle_actlet_done has still to post (tell_me of a Message
\* result), and the envelopes a run may still post within MaxEnvelopes.
ReservedEnvelopes ==
    Cardinality({e \in Envelopes :
                    /\ env[e].message.type = "ActletDoneMessage"
                    /\ isinstance_Message(env[e].message.data)
                    /\ tracker[e].state = "pending"})

EnvelopesLeft == MaxEnvelopes - Len(env) - ReservedEnvelopes

\* ------------------------------------------------------------- ActorProxy
\* ActorProxy.ask by a client context up to its suspension: tell (the message
\* is wrapped in an envelope with a fresh id and posted), then await the
\* tracker.  The proxy holds the actor itself, so the envelope reaches an actor
\* in any lifecycle state once it has been created.  A client that only tells
\* is one that ignores how its ask ends.
ask(sender, a, message) ==
    /\ EnvelopesLeft >= 1
    /\ pc[a] # "none"
    /\ post(<< a >>, sender, message, TRUE)
    /\ UNCHANGED << unit_vars, core_vars, event_vars, pc, waiters, current, running, wi,
                    actlet_vars, call >>

\* Mutant: ask returns whatever result the tracker holds.
ask_outcome_unchecked(fut) ==
    IF fut.state = "exception" THEN [st |-> "raised", value |-> None]
    ELSE [st |-> "returned", value |-> fut.value]

\* What ask does with the resolved tracker: `await tracker` re-raises a stored
\* exception, an UNHANDLED result raises RuntimeError, else the result is returned.
ask_outcome(fut) ==
    IF fut.state = "exception" THEN [st |-> "raised", value |-> None]
    ELSE IF ~is_handled(fut) THEN [st |-> "unhandled", value |-> None]
    ELSE [st |-> "returned", value |-> fut.value]

\* ActorProxy.ask resumed by the resolution of its tracker.
ask_resume(e) ==
    /\ asker[e].st = "waiting"
    /\ tracker[e].state # "pending"
    /\ asker' = [asker EXCEPT ![e] = ask_outcome(tracker[e])]
    /\ UNCHANGED << unit_vars, core_vars, event_vars, pc, queue, unfinished_tasks, waiters,
                    current, env, tracker, calls, sets, running, wi,
                    actlet_vars, call >>

\* ------------------------------------------------------ Core.create_actor
\* pathlib.PurePosixPath: a path string is parsed into a root ("", "/", or "//"
\* for exactly two leading slashes) and its parts, the runs of characters
\* between slashes that are neither empty nor "."; it is printed as the root
\* followed by the parts joined with "/", or "." when both are empty.
parse_root(s) ==
    IF Len(s) >= 2 /\ SubSeq(s, 1, 2) = "//" /\ (Len(s) = 2 \/ SubSeq(s, 3, 3) # "/")
        THEN "//"
    ELSE IF Len(s) >= 1 /\ SubSeq(s, 1, 1) = "/" THEN "/"
    ELSE ""

RECURSIVE parse_parts(_, _)
parse_parts(s, part) ==
    LET done == IF part \in {"", "."} THEN << >> ELSE << part >>
    IN  IF Len(s) = 0 THEN done
        ELSE IF SubSeq(s, 1, 1) = "/"
            THEN done \o parse_parts(SubSeq(s, 2, Len(s)), "")
        ELSE parse_parts(SubSeq(s, 2, Len(s)), part \o SubSeq(s, 1, 1))

RECURSIVE join_parts(_)
join_parts(parts) ==
    IF parts = << >> THEN ""
    ELSE IF Len(parts) = 1 THEN parts[1]
    ELSE parts[1] \o "/" \o join_parts(Tail(parts))

format_path(root, parts) ==
    IF root = "" /\ parts = << >> THEN "." ELSE root \o join_parts(parts)

\* Mutant: the id is the base, a slash and the actor_id.
generate_actor_id_concat(base, actor_id) == base \o "/" \o actor_id

\* Core._generate_actor_id: str(pathlib.Path(base) / actor_id).  An actor_id
\* with a root replaces the base; otherwise its parts follow the base's.
generate_actor_id(base, actor_id) ==
    IF parse_root(actor_id) # ""
        THEN format_path(parse_root(actor_id), parse_parts(actor_id, ""))
        ELSE format_path(parse_root(base),
                         parse_parts(base, "") \o parse_parts(actor_id, ""))

\* Identities of calling contexts and actor_id arguments, in and out of
\* normal form.
Identities ==
    {"/", "/actor", "/actor/actor", "/abs/actor", "/a", "/a/actlet/n", "/a/", ""}
ActorIdArguments ==
    {"actor", "/actor", "/abs/actor", "a/b", "actor/", "/actor/", "./actor",
     "a//b", "", ".", "..", "//x", "///x", "/"}

\* The id create_actor and get_proxy compute from the callee context's
\* identity and the actor_id argument.
generate_actor_id_call(base, actor_id) ==
    /\ call' = Returned("_generate_actor_id", base, actor_id,
                        generate_actor_id(base, actor_id))
    /\ UNCHANGED << unit_vars, core_vars, pc, queue, unfinished_tasks, event_vars,
                    waiters, current, post_vars, running, wi, actlet_vars >>

\* The two RuntimeErrors of create_actor, told apart by their message.
NotRunning == "RuntimeError: core is not running"
DuplicateId == "RuntimeError: actor already exists"

\* Mutant: an id that is already registered is accepted.
create_actor_checks_no_duplicate(is_running, actors, actor_id) ==
    IF ~is_running THEN NotRunning ELSE "none"

\* Mutant: the Core is not asked whether it is running.
create_actor_checks_no_running(is_running, actors, actor_id) ==
    IF actor_id \in Keys(actors) THEN DuplicateId ELSE "none"

\* The checks of create_actor: _assert_running() before and after the lock is
\* taken, then the lookup of the id.  The lock is held only by code without a
\* suspension (here and in shutdown), so it is always free, acquiring it does
\* not suspend, and the whole call is one step.
create_actor_checks(is_running, actors, actor_id) ==
    IF ~is_running THEN NotRunning
    ELSE IF actor_id \in Keys(actors) THEN DuplicateId
    ELSE "none"

\* The successful path: Core is running and the id is free.  The actor is
\* built, registered and started (its serve task is scheduled, not yet run).
\* An id that was registered and removed is not created again in a run.
create_actor(a) ==
    /\ create_actor_checks(core_running, core_actors, a) = "none"
    /\ pc[a] = "none" \/ a \in Keys(core_actors)
    /\ core_actors' = Append(core_actors, a)
    /\ pc' = [pc EXCEPT ![a] = "created"]
    /\ call' = Call("create_actor", a, "", "none")
    /\ UNCHANGED << unit_vars, core_running, core_pc, core_proxies,
                    queue, unfinished_tasks, event_vars, waiters, current,
                    post_vars, running, wi, actlet_vars >>

\* Core.create_actor raises: nothing is constructed, registered or started.
create_actor_fails(a) ==
    /\ create_actor_checks(core_running, core_actors, a) # "none"
    /\ call' = Call("create_actor", a, "",
                    create_actor_checks(core_running, core_actors, a))
    /\ UNCHANGED << unit_vars, core_vars, pc, queue, unfinished_tasks, event_vars,
                    waiters, current, post_vars, running, wi, actlet_vars >>

\* ------------------------------------------------------ Core.remove_actor
\* Mutant: the entry is deleted whether or not the actor is shut down.
remove_actor_unchecked(actors, is_running, is_shutdown, actor_id) ==
    IF ~is_running THEN [actors |-> actors, raised |-> "RuntimeError"]
    ELSE [actors |-> Remove(actors, actor_id), raised |-> "none"]

\* The registry and the exception raised ("none" when it returns), for the
\* actor `actor_id` whose shutdown_event is `is_shutdown`.
remove_actor(actors, is_running, is_shutdown, actor_id) ==
    IF ~is_running THEN [actors |-> actors, raised |-> "RuntimeError"]
    ELSE IF actor_id \notin Keys(actors) THEN [actors |-> actors, raised |-> "none"]
    ELSE IF ~is_shutdown THEN [actors |-> actors, raised |-> "ValueError"]
    ELSE [actors |-> Remove(actors, actor_id), raised |-> "none"]

\* Ids a client calls Core.remove_actor with: the created ids and one id that
\* is never created.
RemoveIds == ActorIds \cup {"/no-such-actor"}

\* Core.remove_actor called by a client: no suspension.
remove_actor_call(actor_id) ==
    LET is_shutdown == actor_id \in ActorIds /\ shutdown_event[actor_id]
        removed == remove_actor(core_actors, core_running, is_shutdown, actor_id)
    IN  /\ core_actors' = removed.actors
        /\ call' = Call("remove_actor", actor_id, "", removed.raised)
        /\ UNCHANGED << unit_vars, core_running, core_pc, core_proxies, pc, queue,
                        unfinished_tasks, event_vars, waiters, current,
                        post_vars, running, wi, actlet_vars >>

\* ------------------------------------------------- Service._service_worker
\* Mutant: serve() enters its loop without calling initialize().
service_worker_start_skips_initialize(a) ==
    /\ pc[a] = "created"
    /\ ready_event' = [ready_event EXCEPT ![a] = TRUE]
    /\ waiters' = [waiters EXCEPT ![a] = [stop |-> "created", get |-> "created",
                                          result |-> 0]]
    /\ pc' = [pc EXCEPT ![a] = "waiting"]
    /\ UNCHANGED << unit_vars, core_vars, queue, unfinished_tasks, stop_event, done_event,
                    initialize_event, initialize_exception, shutdown_event,
                    task_exception, init_sets, initialize_result, current, post_vars,
                    running, wi,
                    actlet_vars, call >>

\* First step of the serve task: setup() (a no-op for Actor), ready_event is
\* set, serve() is entered and calls initialize(), where the task may suspend.
service_worker_start(a) ==
    /\ pc[a] = "created"
    /\ ready_event' = [ready_event EXCEPT ![a] = TRUE]
    /\ pc' = [pc EXCEPT ![a] = "initialize"]
    /\ UNCHANGED << unit_vars, core_vars, queue, unfinished_tasks, stop_event, done_event,
                    initialize_event, initialize_exception, shutdown_event,
                    task_exception, init_sets, initialize_result, waiters, current, post_vars,
                    running, wi,
                    actlet_vars, call >>

\* The finally clause of Actor.serve followed by the finally clause of
\* _service_worker, run without a suspension: shutdown_event is set;
\* Core.remove_actor is called (an exception it raises replaces `exc`);
\* teardown() is a no-op; stop_event is set; the task ends.
serve_finally(a, exc) ==
    LET removed == remove_actor(core_actors, core_running, TRUE, a)
    IN  /\ shutdown_event' = [shutdown_event EXCEPT ![a] = TRUE]
        /\ core_actors' = removed.actors
        /\ task_exception' = [task_exception EXCEPT ![a] =
                                IF removed.raised # "none" THEN removed.raised ELSE exc]
        /\ stop_event' = [stop_event EXCEPT ![a] = TRUE]
        /\ pc' = [pc EXCEPT ![a] = "done"]

\* Service._on_worker_done: the done callback of the ended serve task.
on_worker_done(a) ==
    /\ pc[a] = "done"
    /\ ready_event' = [ready_event EXCEPT ![a] = TRUE]
    /\ done_event' = [done_event EXCEPT ![a] = TRUE]
    /\ stop_event' = [stop_event EXCEPT ![a] = TRUE]
    /\ pc' = [pc EXCEPT ![a] = "finished"]
    /\ UNCHANGED << unit_vars, core_vars, queue, unfinished_tasks, initialize_event,
                    initialize_exception, shutdown_event, task_exception,
                    init_sets, initialize_result, waiters, current, post_vars, running, wi,
                    actlet_vars, call >>

\* ------------------------------------------------------------ MultiWaiter
\* A waiter task is "none" (no task), "created" (task made, first step not
\* run), "pending" (suspended in its operation), "done" or "cancelled".

\* Mutant: a done task is neither popped nor replaced.
run_waiters_keep(w) == w

\* _run_waiters up to `await gather(*cancelled)`: a done task is popped and its
\* slot cleared; a pending task is left alone (recreate is False).
run_waiters_cancel(w) ==
    [stop |-> IF w.stop = "done" THEN "none" ELSE w.stop,
     get |-> IF w.get = "done" THEN "none" ELSE w.get,
     result |-> IF w.get = "done" THEN 0 ELSE w.result]

\* Mutant: the get task is not created again after it has completed once.
run_waiters_create_stop_only(w) ==
    [stop |-> IF w.stop = "none" THEN "created" ELSE w.stop,
     get |-> w.get,
     result |-> w.result]

\* _run_waiters after the gather: a task is created for every cleared slot.
run_waiters_create(w) ==
    [stop |-> IF w.stop = "none" THEN "created" ELSE w.stop,
     get |-> IF w.get = "none" THEN "created" ELSE w.get,
     result |-> w.result]

\* MultiWaiter.cancel: every task that is not done is cancelled.
cancel(w) ==
    [stop |-> IF w.stop \in {"created", "pending"} THEN "cancelled" ELSE w.stop,
     get |-> IF w.get \in {"created", "pending"} THEN "cancelled" ELSE w.get,
     result |-> w.result]

\* Whether cancel() has a task to gather, i.e. suspends.
cancel_suspends(w) == w.stop \in {"created", "pending"} \/ w.get \in {"created", "pending"}

\* The task of `obj.wait_stop()`: completes once stop_event is set.
stop_task_step(a) ==
    /\ \/ waiters[a].stop = "created"
       \/ waiters[a].stop = "pending" /\ stop_event[a]
    /\ waiters' = [waiters EXCEPT ![a].stop =
                      IF stop_event[a] THEN "done" ELSE "pending"]
    /\ UNCHANGED << unit_vars, core_vars, pc, queue, unfinished_tasks, event_vars, current,
                    post_vars, running, wi,
                    actlet_vars, call >>

\* Mutant: a get() suspended on the empty queue is not woken by a later put.
get_task_step_no_wakeup(a) ==
    /\ waiters[a].get = "created"
    /\ IF queue[a] # << >>
          THEN /\ waiters' = [waiters EXCEPT ![a].get = "done",
                                             ![a].result = Head(queue[a])]
               /\ queue' = [queue EXCEPT ![a] = Tail(queue[a])]
          ELSE /\ waiters' = [waiters EXCEPT ![a].get = "pending"]
               /\ UNCHANGED queue
    /\ UNCHANGED << unit_vars, core_vars, pc, unfinished_tasks, event_vars, current,
                    post_vars, running, wi,
                    actlet_vars, call >>

\* The task of `obj.get()`: takes the head of the queue once there is one.
get_task_step(a) ==
    /\ \/ waiters[a].get = "created"
       \/ waiters[a].get = "pending" /\ queue[a] # << >>
    /\ IF queue[a] # << >>
          THEN /\ waiters' = [waiters EXCEPT ![a].get = "done",
                                             ![a].result = Head(queue[a])]
               /\ queue' = [queue EXCEPT ![a] = Tail(queue[a])]
          ELSE /\ waiters' = [waiters EXCEPT ![a].get = "pending"]
               /\ UNCHANGED queue
    /\ UNCHANGED << unit_vars, core_vars, pc, unfinished_tasks, event_vars, current,
                    post_vars, running, wi,
                    actlet_vars, call >>

\* asyncio.wait(FIRST_COMPLETED) returns to wait_first: some task is done, and
\* every task created by this call has run its first step (a new task is
\* scheduled before the callback that wakes the waiting serve task).
wait_first_returns(a) ==
    /\ pc[a] = "waiting"
    /\ "created" \notin {waiters[a].stop, waiters[a].get}
    /\ "done" \in {waiters[a].stop, waiters[a].get}

\* --------------------------------------------------------------- Actor.serve
\* Leaving the `async with in_multi_waiter()` block, by break (exc = "none") or
\* by an exception: MultiWaiter.cancel() cancels the tasks still pending and
\* gathers them, which suspends the serve task when there is one; with none to
\* gather, the finally clauses run in the same step.
exit_multi_waiter(a, exc) ==
    IF cancel_suspends(waiters[a])
        THEN /\ waiters' = [waiters EXCEPT ![a] = cancel(waiters[a])]
             /\ task_exception' = [task_exception EXCEPT ![a] = exc]
             /\ pc' = [pc EXCEPT ![a] = "cancelling"]
             /\ UNCHANGED << core_actors, shutdown_event, stop_event,
                    actlet_vars, call >>
        ELSE /\ waiters' = [waiters EXCEPT ![a] = cancel(waiters[a])]
             /\ serve_finally(a, exc)

\* initialize() returned: initialize_event is set, the two sources are added
\* to a new MultiWaiter and the first wait_first() creates both tasks (nothing
\* to cancel, so no suspension before asyncio.wait).
initialize_returns(a) ==
    /\ pc[a] = "initialize"
    /\ initialize_event' = [initialize_event EXCEPT ![a] = TRUE]
    /\ init_sets' = [init_sets EXCEPT ![a] = init_sets[a] + 1]
    /\ initialize_result' = [initialize_result EXCEPT ![a] = "returned"]
    /\ waiters' = [waiters EXCEPT ![a] = run_waiters_create(NoWaiters)]
    /\ pc' = [pc EXCEPT ![a] = "waiting"]
    /\ UNCHANGED << unit_vars, core_vars, queue, unfinished_tasks, stop_event, ready_event,
                    done_event, initialize_exception, shutdown_event,
                    task_exception, current, post_vars, running, wi,
                    actlet_vars, call >>

\* Mutant: the exception of initialize() is not stashed.
initialize_raises_no_stash(a) ==
    /\ pc[a] = "initialize"
    /\ initialize_event' = [initialize_event EXCEPT ![a] = TRUE]
    /\ init_sets' = [init_sets EXCEPT ![a] = init_sets[a] + 1]
    /\ initialize_result' = [initialize_result EXCEPT ![a] = "raised"]
    /\ serve_finally(a, "initialize")
    /\ UNCHANGED << unit_vars, core_running, core_pc, core_proxies, queue,
                    unfinished_tasks, ready_event, done_event,
                    initialize_exception, waiters, current, post_vars,
                    running, wi,
                    actlet_vars, call >>

\* initialize() raised: initialize_event is set and the exception stashed (in
\* one step, there is no suspension between the two), then it is re-raised
\* into the finally clauses.
initialize_raises(a) ==
    /\ pc[a] = "initialize"
    /\ initialize_event' = [initialize_event EXCEPT ![a] = TRUE]
    /\ init_sets' = [init_sets EXCEPT ![a] = init_sets[a] + 1]
    /\ initialize_result' = [initialize_result EXCEPT ![a] = "raised"]
    /\ initialize_exception' = [initialize_exception EXCEPT ![a] = TRUE]
    /\ serve_finally(a, "initialize")
    /\ UNCHANGED << unit_vars, core_running, core_pc, core_proxies, queue,
                    unfinished_tasks, ready_event, done_event, waiters, current,
                    post_vars, running, wi,
                    actlet_vars, call >>

\* wait_first() returned with the stop key done: break.
serve_break(a) ==
    /\ wait_first_returns(a)
    /\ waiters[a].stop = "done"
    /\ exit_multi_waiter(a, "none")
    /\ UNCHANGED << unit_vars, core_running, core_pc, core_proxies, queue,
                    unfinished_tasks, ready_event, done_event, initialize_event,
                    initialize_exception, init_sets, initialize_result, current, post_vars,
                    running, wi,
                    actlet_vars, call >>

\* The envelope the loop body works on: the result of the done get task.
received(a) == waiters[a].result

\* Mutant: an envelope without a handler is resolved with None.
serve_unhandled_none(a) ==
    /\ wait_first_returns(a)
    /\ waiters[a].stop # "done"
    /\ match(env[received(a)].message) = NoHandler
    /\ tracker' = [tracker EXCEPT ![received(a)] = set_result(@, None)]
    /\ sets' = [sets EXCEPT ![received(a)] = @ + 1]
    /\ unfinished_tasks' = [unfinished_tasks EXCEPT ![a] = @ - 1]
    /\ waiters' = [waiters EXCEPT ![a] = run_waiters_cancel(@)]
    /\ pc' = [pc EXCEPT ![a] = "rearm"]
    /\ UNCHANGED << unit_vars, core_vars, queue, event_vars, current, env, asker, calls,
                    running, wi,
                    actlet_vars, call >>

\* No handler for the message: the tracker is resolved with UNHANDLED,
\* task_done(), continue; the next wait_first() suspends in _run_waiters.
serve_unhandled(a) ==
    /\ wait_first_returns(a)
    /\ waiters[a].stop # "done"
    /\ match(env[received(a)].message) = NoHandler
    /\ tracker' = [tracker EXCEPT ![received(a)] = set_result(@, UNHANDLED)]
    /\ sets' = [sets EXCEPT ![received(a)] = @ + 1]
    /\ unfinished_tasks' = [unfinished_tasks EXCEPT ![a] = @ - 1]
    /\ waiters' = [waiters EXCEPT ![a] = run_waiters_cancel(@)]
    /\ pc' = [pc EXCEPT ![a] = "rearm"]
    /\ UNCHANGED << unit_vars, core_vars, queue, event_vars, current, env, asker, calls,
                    running, wi,
                    actlet_vars, call >>

\* Mutant: the handler is started but not awaited; the loop goes on at once.
serve_dispatch_detached(a) ==
    /\ wait_first_returns(a)
    /\ waiters[a].stop # "done"
    /\ match(env[received(a)].message) # NoHandler
    /\ calls' = [calls EXCEPT ![received(a)] = @ + 1]
    /\ running' = [running EXCEPT ![a] = @ \cup {received(a)}]
    /\ waiters' = [waiters EXCEPT ![a] = run_waiters_cancel(@)]
    /\ pc' = [pc EXCEPT ![a] = "rearm"]
    /\ UNCHANGED << unit_vars, core_vars, queue, unfinished_tasks, event_vars, current, env,
                    tracker, asker, sets, wi,
                    actlet_vars, call >>

\* Mutant: the loop does not look at the stop key before it takes the envelope.
serve_dispatch_ignores_stop(a) ==
    /\ wait_first_returns(a)
    /\ waiters[a].get = "done"
    /\ match(env[received(a)].message)
            \notin {NoHandler, "handle_actlet_done", "handle_timer_done"}
    /\ current' = [current EXCEPT ![a] = received(a)]
    /\ calls' = [calls EXCEPT ![received(a)] = @ + 1]
    /\ running' = [running EXCEPT ![a] = @ \cup {received(a)}]
    /\ pc' = [pc EXCEPT ![a] = "handler"]
    /\ cancels' = [cancels EXCEPT ![a] =
                    IF match(env[received(a)].message) = "handle_shutdown"
                        THEN values(actlets[a]) ELSE @]
    /\ UNCHANGED << unit_vars, core_vars, queue, unfinished_tasks, event_vars, waiters, env,
                    tracker, asker, sets, wi, actlets, actlet, call >>

\* A handler that suspends matches: it is called and awaited; the serve task
\* is suspended inside the handler until it returns or raises.  handle_shutdown
\* starts by gathering actlet.cancel() of every actlet in the map: the
\* coroutines are wrapped in tasks that run while the handler is suspended.
\* (handle_actlet_done and handle_timer_done have no await: see
\* handle_actlet_done(a) and handle_timer_done(a).)
serve_dispatch(a) ==
    /\ wait_first_returns(a)
    /\ waiters[a].stop # "done"
    /\ match(env[received(a)].message)
            \notin {NoHandler, "handle_actlet_done", "handle_timer_done"}
    /\ current' = [current EXCEPT ![a] = received(a)]
    /\ calls' = [calls EXCEPT ![received(a)] = @ + 1]
    /\ running' = [running EXCEPT ![a] = @ \cup {received(a)}]
    /\ pc' = [pc EXCEPT ![a] = "handler"]
    /\ cancels' = [cancels EXCEPT ![a] =
                    IF match(env[received(a)].message) = "handle_shutdown"
                        THEN values(actlets[a]) ELSE @]
    /\ UNCHANGED << unit_vars, core_vars, queue, unfinished_tasks, event_vars, waiters, env,
                    tracker, asker, sets, wi, actlets, actlet, call >>

\* The awaited handler returned: handle_shutdown's gather is complete and it has called stop()
\* (stop_event set) as its last statement; the tracker takes the returned value;
\* task_done(); the next wait_first() suspends in _run_waiters.
handler_returns(a) ==
    LET e == current[a]
        handler == match(env[e].message)
        outcome == HandlerOutcome(handler, env[e].message)
    IN  /\ pc[a] = "handler"
        /\ cancels[a] = {}
        /\ ~outcome.raises
        /\ stop_event' = [stop_event EXCEPT ![a] = @ \/ handler = "handle_shutdown"]
        /\ tracker' = [tracker EXCEPT ![e] = set_result(@, outcome.value)]
        /\ sets' = [sets EXCEPT ![e] = @ + 1]
        /\ unfinished_tasks' = [unfinished_tasks EXCEPT ![a] = @ - 1]
        /\ running' = [running EXCEPT ![a] = @ \ {e}]
        /\ current' = [current EXCEPT ![a] = 0]
        /\ waiters' = [waiters EXCEPT ![a] = run_waiters_cancel(@)]
        /\ pc' = [pc EXCEPT ![a] = "rearm"]
        /\ UNCHANGED << unit_vars, core_vars, queue, ready_event, done_event,
                        initialize_event, initialize_exception, shutdown_event,
                        task_exception, init_sets, initialize_result, env, asker, calls, wi,
                    actlet_vars, call >>

\* Mutant: the exception is stored on the tracker and then re-raised out of
\* the loop.
handler_raises_reraise(a) ==
    LET e == current[a]
        handler == match(env[e].message)
        outcome == HandlerOutcome(handler, env[e].message)
    IN  /\ pc[a] = "handler"
        /\ outcome.raises
        /\ tracker' = [tracker EXCEPT ![e] = set_exception(@)]
        /\ sets' = [sets EXCEPT ![e] = @ + 1]
        /\ running' = [running EXCEPT ![a] = @ \ {e}]
        /\ current' = [current EXCEPT ![a] = 0]
        /\ exit_multi_waiter(a, "handler")
        /\ UNCHANGED << unit_vars, core_running, core_pc, core_proxies, queue,
                        unfinished_tasks, ready_event, done_event,
                        initialize_event, initialize_exception, init_sets,
                        initialize_result, env, asker, calls, wi,
                    actlet_vars, call >>

\* The awaited handler raised: the exception is caught and stored on the
\* tracker; task_done(); the loop goes on.
handler_raises(a) ==
    LET e == current[a]
        handler == match(env[e].message)
        outcome == HandlerOutcome(handler, env[e].message)
    IN  /\ pc[a] = "handler"
        /\ outcome.raises
        /\ tracker' = [tracker EXCEPT ![e] = set_exception(@)]
        /\ sets' = [sets EXCEPT ![e] = @ + 1]
        /\ unfinished_tasks' = [unfinished_tasks EXCEPT ![a] = @ - 1]
        /\ running' = [running EXCEPT ![a] = @ \ {e}]
        /\ current' = [current EXCEPT ![a] = 0]
        /\ waiters' = [waiters EXCEPT ![a] = run_waiters_cancel(@)]
        /\ pc' = [pc EXCEPT ![a] = "rearm"]
        /\ UNCHANGED << unit_vars, core_vars, queue, event_vars, env, asker, calls, wi,
                    actlet_vars, call >>

\* _run_waiters resumed after gathering the popped tasks: the cleared slots
\* get new tasks and wait_first() suspends in asyncio.wait.
run_waiters_resume(a) ==
    /\ pc[a] = "rearm"
    /\ waiters' = [waiters EXCEPT ![a] = run_waiters_create(@)]
    /\ pc' = [pc EXCEPT ![a] = "waiting"]
    /\ UNCHANGED << unit_vars, core_vars, queue, unfinished_tasks, event_vars, current,
                    post_vars, running, wi,
                    actlet_vars, call >>

\* MultiWaiter.cancel() resumed after gathering the cancelled tasks: the
\* finally clauses of serve and _service_worker run.
serve_cancelled(a) ==
    /\ pc[a] = "cancelling"
    /\ serve_finally(a, task_exception[a])
    /\ UNCHANGED << unit_vars, core_running, core_pc, core_proxies, queue,
                    unfinished_tasks, ready_event, done_event, initialize_event,
                    initialize_exception, init_sets, initialize_result, waiters, current,
                    post_vars, running, wi,
                    actlet_vars, call >>

\* ------------------------------------------------------------ Core.shutdown
\* Up to the gather: running is cleared under the (free) lock, a
\* ShutdownMessage is told to every registered actor in registry order, then
\* the wait_until_shutdown of each is gathered (no suspension with no actor).
shutdown_begin ==
    /\ core_pc = "idle"
    /\ EnvelopesLeft >= Len(core_actors)
    /\ core_running' = FALSE
    /\ post(core_actors, CORE_IDENTITY, ShutdownMessage, FALSE)
    /\ core_proxies' = Keys(core_actors)
    /\ core_pc' = IF core_actors = << >> THEN "idle" ELSE "waiting"
    /\ UNCHANGED << unit_vars, core_actors, pc, event_vars, waiters, current, running, wi,
                    actlet_vars, call >>

\* Mutant: shutdown returns without waiting for the actors.
shutdown_returns_early ==
    /\ core_pc = "waiting"
    /\ core_pc' = "idle"
    /\ core_proxies' = {}
    /\ UNCHANGED << unit_vars, core_running, core_actors, pc, queue,
                    unfinished_tasks, event_vars, waiters, current, post_vars,
                    running, wi, actlet_vars, call >>

\* The gather completes: every awaited actor has set its shutdown_event.
shutdown_returns ==
    /\ core_pc = "waiting"
    /\ \A a \in core_proxies : shutdown_event[a]
    /\ core_pc' = "idle"
    /\ core_proxies' = {}
    /\ UNCHANGED << unit_vars, core_running, core_actors, pc, queue,
                    unfinished_tasks, event_vars, waiters, current, post_vars,
                    running, wi,
                    actlet_vars, call >>

\* ------------------------------------------- Actor.wait_until_initialized
\* After initialize_event.wait(): raise the stashed exception, if any.
wait_outcome(exception_set) == IF exception_set THEN "raised" ELSE "returned"

\* A call: with the event set it completes at once, else it suspends.
wait_until_initialized(a) ==
    /\ pc[a] # "none"
    /\ wi[a].st = "idle"
    /\ wi' = [wi EXCEPT ![a] =
                IF initialize_event[a]
                    THEN [st |-> "idle", last |-> wait_outcome(initialize_exception[a])]
                    ELSE [st |-> "blocked", last |-> @.last]]
    /\ UNCHANGED << unit_vars, core_vars, pc, queue, unfinished_tasks, event_vars, waiters,
                    current, post_vars, running,
                    actlet_vars, call >>

\* A suspended call woken by initialize_event.set().
wait_until_initialized_resume(a) ==
    /\ wi[a].st = "blocked"
    /\ initialize_event[a]
    /\ wi' = [wi EXCEPT ![a] =
                [st |-> "idle", last |-> wait_outcome(initialize_exception[a])]]
    /\ UNCHANGED << unit_vars, core_vars, pc, queue, unfinished_tasks, event_vars, waiters,
                    current, post_vars, running,
                    actlet_vars, call >>

\* ----------------------------------------------------------------- Actlet
MaxActlets == 2        \* actlets constructed in one run

\* The kinds of function create_actlet is called with: a coroutine function
\* of (context, proxy, configuration); a bound method; a function with other
\* parameters; a function that is not a coroutine function.
EntryPoints == {"coroutine", "bound", "signature", "not_coroutine"}

\* Actor.is_actlet_exists
is_actlet_exists(a, name) == actlets[a][generate_actlet_name(a, name)] # 0

\* Mutant: a name that is in the map is accepted.
create_actlet_checks_no_duplicate(exists, function, registered) ==
    IF function = "coroutine" /\ registered THEN "none" ELSE "RuntimeError"

\* The checks of create_actlet, of the get_proxy it calls for the owner (which
\* must be in the registry) and of Actlet.__init__, all made before the task is
\* created: the exception raised, or "none".
create_actlet_checks(exists, function, registered) ==
    IF exists THEN "RuntimeError"
    ELSE IF function = "bound" THEN "RuntimeError"
    ELSE IF ~registered THEN "RuntimeError"
    ELSE IF function = "signature" THEN "RuntimeError"
    ELSE IF function = "not_coroutine" THEN "RuntimeError"
    ELSE "none"

\* The local variable `repetitions` of _generic_timer: a count, or
\* float('inf').
Finite(n) == [inf |-> FALSE, n |-> n]
float_zero == Finite(0)        \* mutant: repetitions = 0 means no repetition
float_inf == [inf |-> TRUE, n |-> 0]
minus_one_keeps(repetitions) == repetitions    \* mutant: nothing is counted
minus_one(repetitions) ==
    IF repetitions.inf THEN repetitions ELSE [repetitions EXCEPT !.n = @ - 1]
greater_than_zero(repetitions) == repetitions.inf \/ repetitions.n > 0

\* TimerConfiguration.  interval is a number or (as in test_exception_timer) a
\* string, on which asyncio.sleep raises TypeError; message is SomeMessage or a
\* message copy.deepcopy cannot copy, on which proxy.tell raises; delay is 0 or
\* a positive number.
TimerConfiguration(message, interval, delay, now, repetitions) ==
    [message |-> message, interval |-> interval, delay |-> delay, now |-> now,
     repetitions |-> repetitions]

\* The configuration of an actlet that is not a timer.
NoConfiguration == TimerConfiguration("SomeMessage", "number", 0, FALSE, 0)

\* Actor.create_actlet: no suspension.  On success the Actlet is constructed
\* (its task created, not yet run: at "start") and stored in the map under the
\* qualified name.
create_actlet_configured(a, name, function, configuration) ==
    LET q == generate_actlet_name(a, name)
        raised == create_actlet_checks(is_actlet_exists(a, name), function,
                                       a \in Keys(core_actors))
    IN  /\ pc[a] # "none"
        /\ raised = "none" => Len(actlet) < MaxActlets
        /\ call' = Call("create_actlet", a, name, raised)
        /\ IF raised = "none"
             THEN /\ actlet' = Append(actlet, [name |-> q, owner |-> a,
                                               entry_point |-> function,
                                               state |-> "running",
                                               configuration |-> configuration,
                                               at |-> "start",
                                               repetitions |-> Finite(0),
                                               sent |-> 0])
                  /\ actlets' = [actlets EXCEPT ![a][q] = Len(actlet) + 1]
             ELSE UNCHANGED << actlets, actlet >>
        /\ UNCHANGED << unit_vars, core_vars, pc, queue, unfinished_tasks, event_vars,
                        waiters, current, post_vars, running, wi, cancels >>

create_actlet(a, name, function) ==
    create_actlet_configured(a, name, function, NoConfiguration)

\* Mutant: cancel leaves the task running.
Actlet_cancel_noop(act) == act

\* Actlet.cancel: task.cancel().  A task that has not ended gets the
\* CancelledError at its next step and ends cancelled; a task that has ended
\* is left as it is.
Actlet_cancel(act) ==
    IF act.state = "running" THEN [act EXCEPT !.state = "cancelled"] ELSE act

\* Mutant: the actlet is cancelled and its name is left in the map.
cancel_actlet_keeps(a, name) ==
    LET q == generate_actlet_name(a, name)
        i == actlets[a][q]
    IN  /\ pc[a] # "none"
        /\ IF i = 0
             THEN /\ call' = Call("cancel_actlet", a, name, "KeyError")
                  /\ UNCHANGED << actlets, actlet >>
             ELSE /\ call' = Call("cancel_actlet", a, name, "none")
                  /\ actlet' = [actlet EXCEPT ![i] = Actlet_cancel(@)]
                  /\ UNCHANGED actlets
        /\ UNCHANGED << unit_vars, core_vars, pc, queue, unfinished_tasks, event_vars,
                        waiters, current, post_vars, running, wi, cancels >>

\* Actor.cancel_actlet: no suspension.  A name that is not in the map raises
\* KeyError.
cancel_actlet(a, name) ==
    LET q == generate_actlet_name(a, name)
        i == actlets[a][q]
    IN  /\ pc[a] # "none"
        /\ IF i = 0
             THEN /\ call' = Call("cancel_actlet", a, name, "KeyError")
                  /\ UNCHANGED << actlets, actlet >>
             ELSE /\ call' = Call("cancel_actlet", a, name, "none")
                  /\ actlet' = [actlet EXCEPT ![i] = Actlet_cancel(@)]
                  /\ actlets' = [actlets EXCEPT ![a][q] = 0]
        /\ UNCHANGED << unit_vars, core_vars, pc, queue, unfinished_tasks, event_vars,
                        waiters, current, post_vars, running, wi, cancels >>

\* Mutant: the function returned and nothing is told to the owner.
actlet_returns_silent(i, result) ==
    /\ i \in 1..Len(actlet)
    /\ actlet[i].state = "running"
    /\ actlet' = [actlet EXCEPT ![i].state = "returned"]
    /\ UNCHANGED << unit_vars, core_vars, pc, queue, unfinished_tasks, event_vars,
                    waiters, current, post_vars, running, wi, actlets,
                    cancels, call >>

\* Actlet._run, the function returned `result`: the ActletDoneMessage is told
\* to the owner through its proxy (the sender is the actlet's identity, its
\* qualified name) and the task ends.
actlet_returns(i, result) ==
    /\ i \in 1..Len(actlet)
    /\ actlet[i].state = "running"
    /\ EnvelopesLeft >= IF isinstance_Message(result) THEN 2 ELSE 1
    /\ actlet' = [actlet EXCEPT ![i].state = "returned"]
    /\ post(<< actlet[i].owner >>, actlet[i].name, ActletDoneMessage(result), FALSE)
    /\ UNCHANGED << unit_vars, core_vars, event_vars, pc, waiters, current, running, wi,
                    actlets, cancels, call >>

\* Actlet._run, the function raised an Exception: it is logged and the task
\* ends; nothing is told to the owner.
actlet_raises(i) ==
    /\ i \in 1..Len(actlet)
    /\ actlet[i].state = "running"
    /\ actlet' = [actlet EXCEPT ![i].state = "raised"]
    /\ UNCHANGED << unit_vars, core_vars, pc, queue, unfinished_tasks, event_vars,
                    waiters, current, post_vars, running, wi, actlets,
                    cancels, call >>

\* One of the actlet.cancel() tasks gathered by handle_shutdown runs.
cancel_step(a, i) ==
    /\ i \in cancels[a]
    /\ actlet' = [actlet EXCEPT ![i] = Actlet_cancel(@)]
    /\ cancels' = [cancels EXCEPT ![a] = @ \ {i}]
    /\ UNCHANGED << unit_vars, core_vars, pc, queue, unfinished_tasks, event_vars,
                    waiters, current, post_vars, running, wi, actlets, call >>

\* An ActletDoneMessage is received: handle_actlet_done is called and runs to
\* its end without a suspension.  A Message result is posted to the actor
\* itself (tell_me), then the sender is deleted from the map; a sender that is
\* not in the map raises KeyError, which serve stores on the tracker.  Then
\* task_done(), and the next wait_first() suspends in _run_waiters.
handle_actlet_done(a) ==
    LET e == received(a)
        message == env[e].message
        sender == env[e].sender
        told == isinstance_Message(message.data)
        new == Len(env) + 1
        fut == IF actlets[a][sender] = 0
                 THEN set_exception(tracker[e]) ELSE set_result(tracker[e], None)
    IN  /\ wait_first_returns(a)
        /\ waiters[a].stop # "done"
        /\ match(message) = "handle_actlet_done"
        /\ env' = IF told
                    THEN Append(env, NewEnvelope(new, a, a, ResultMessage(message.data)))
                    ELSE env
        /\ tracker' = IF told
                        THEN Append([tracker EXCEPT ![e] = fut], NewTracker)
                        ELSE [tracker EXCEPT ![e] = fut]
        /\ asker' = IF told THEN Append(asker, [st |-> "tell", value |-> None])
                            ELSE asker
        /\ calls' = IF told THEN Append([calls EXCEPT ![e] = @ + 1], 0)
                            ELSE [calls EXCEPT ![e] = @ + 1]
        /\ sets' = IF told THEN Append([sets EXCEPT ![e] = @ + 1], 0)
                           ELSE [sets EXCEPT ![e] = @ + 1]
        /\ queue' = IF told THEN [queue EXCEPT ![a] = put_nowait(@, new)] ELSE queue
        /\ unfinished_tasks' = [unfinished_tasks EXCEPT ![a] =
                                    IF told THEN @ ELSE @ - 1]
        /\ actlets' = [actlets EXCEPT ![a][sender] = 0]
        /\ waiters' = [waiters EXCEPT ![a] = run_waiters_cancel(@)]
        /\ pc' = [pc EXCEPT ![a] = "rearm"]
        /\ UNCHANGED << unit_vars, core_vars, event_vars, current, running, wi, actlet,
                        cancels, call >>

\* ------------------------------------------------------------------ Timers
MaxTimerEnvelopes == 4    \* envelopes in a run with timers
MaxRepetitions == 2       \* largest `repetitions` a timer is created with

\* The configurations timers are created with: every `now` and every
\* `repetitions` with a sound message and interval and no delay; and for each
\* `now`, a string interval, a message that cannot be copied, and a delay.
TimerConfigurations ==
    {TimerConfiguration("SomeMessage", "number", 0, now, repetitions) :
        now \in BOOLEAN, repetitions \in 0..MaxRepetitions}
    \cup {TimerConfiguration("SomeMessage", "string", 0, now, 0) : now \in BOOLEAN}
    \cup {TimerConfiguration("Uncopyable", "number", 0, now, 1) : now \in BOOLEAN}
    \cup {TimerConfiguration("SomeMessage", "number", 1, now, 1) : now \in BOOLEAN}

\* _generic_timer from one resumption of its task to its next suspension or
\* to its return: where it is then, its local `repetitions`, and whether it
\* told the message on the way (at most once between two suspensions).  Every
\* Exception (a sleep on a string interval, a tell of a message that cannot be
\* copied) is caught and leads to the return, like the end of the loop.
TimerLoop(configuration, repetitions, told) ==
    IF greater_than_zero(repetitions) /\ configuration.interval = "number"
        THEN [at |-> "interval", repetitions |-> repetitions, told |-> told]
        ELSE [at |-> "returned", repetitions |-> repetitions, told |-> told]

\* Mutant: the tell of a message that cannot be copied goes through.
TimerTell_always(configuration, repetitions) ==
    TimerLoop(configuration, minus_one(repetitions), 1)

TimerTell(configuration, repetitions) ==
    IF configuration.message = "SomeMessage"
        THEN TimerLoop(configuration, minus_one(repetitions), 1)
        ELSE [at |-> "returned", repetitions |-> repetitions, told |-> 0]

TimerAfterDelay(configuration) ==
    LET repetitions == IF configuration.repetitions # 0
                         THEN Finite(configuration.repetitions) ELSE float_inf
    IN  IF configuration.now
            THEN TimerTell(configuration, repetitions)
            ELSE TimerLoop(configuration, repetitions, 0)

generic_timer(configuration, at, repetitions) ==
    CASE at = "start" ->
            IF configuration.delay # 0
                THEN [at |-> "delay", repetitions |-> repetitions, told |-> 0]
                ELSE TimerAfterDelay(configuration)
      [] at = "delay" -> TimerAfterDelay(configuration)
      [] at = "interval" -> TimerTell(configuration, repetitions)

\* ActorProxy.tell / Actor.post of several messages, one after the other, from
\* one sender to one receiver.
post_all(messages, sender, receiver) ==
    LET n == Len(messages)
        base == Len(env)
    IN  /\ env' = env \o [k \in 1..n |->
                            NewEnvelope(base + k, sender, receiver, messages[k])]
        /\ tracker' = tracker \o [k \in 1..n |-> NewTracker]
        /\ asker' = asker \o [k \in 1..n |-> [st |-> "tell", value |-> None]]
        /\ calls' = calls \o [k \in 1..n |-> 0]
        /\ sets' = sets \o [k \in 1..n |-> 0]
        /\ queue' = [queue EXCEPT ![receiver] = @ \o [k \in 1..n |-> base + k]]
        /\ unfinished_tasks' = [unfinished_tasks EXCEPT ![receiver] = @ + n]

\* The task of a timer runs from one suspension to the next (the task starts,
\* or a sleep is over), telling the message to the owner on the way.  When
\* _generic_timer returns its TimerDoneMessage, Actlet._run tells the
\* ActletDoneMessage that holds it in the same step and the task ends.
timer_step(i) ==
    /\ i \in 1..Len(actlet)
    /\ actlet[i].state = "running"
    /\ actlet[i].entry_point = "_generic_timer"
    /\ LET act == actlet[i]
           next == generic_timer(act.configuration, act.at, act.repetitions)
           returns == next.at = "returned"
           messages ==
                (IF next.told = 1 THEN << SomeMessage >> ELSE << >>)
                    \o (IF returns
                            THEN << ActletDoneMessage("TimerDoneMessage") >>
                            ELSE << >>)
       IN  /\ Len(env) + ReservedEnvelopes + Len(messages)
                    + (IF returns THEN 1 ELSE 0) <= MaxTimerEnvelopes
           /\ actlet' = [actlet EXCEPT ![i] =
                            [@ EXCEPT !.at = next.at,
                                      !.repetitions = next.repetitions,
                                      !.sent = @ + next.told,
                                      !.state = IF returns THEN "returned"
                                                           ELSE "running"]]
           /\ post_all(messages, act.name, act.owner)
    /\ UNCHANGED << unit_vars, core_vars, event_vars, pc, waiters, current, running, wi,
                    actlets, cancels, call >>

\* Actor.create_timer: create_actlet of the name "timer/<name>" with
\* Actor._generic_timer and the TimerConfiguration.
create_timer(a, name, configuration) ==
    create_actlet_configured(a, generate_timer_name(name), "_generic_timer",
                             configuration)

\* Actor.cancel_timer: cancel_actlet of the name "timer/<name>".
cancel_timer(a, name) == cancel_actlet(a, generate_timer_name(name))

\* A TimerDoneMessage is received: the base actor's handle_timer_done (or the
\* tests' timer_done handler, which sets a flag) is called and runs to its end
\* without a suspension; the tracker takes None; task_done(); the next
\* wait_first() suspends in _run_waiters.
handle_timer_done(a) ==
    LET e == received(a)
    IN  /\ wait_first_returns(a)
        /\ waiters[a].stop # "done"
        /\ match(env[e].message) = "handle_timer_done"
        /\ calls' = [calls EXCEPT ![e] = @ + 1]
        /\ tracker' = [tracker EXCEPT ![e] = set_result(@, None)]
        /\ sets' = [sets EXCEPT ![e] = @ + 1]
        /\ unfinished_tasks' = [unfinished_tasks EXCEPT ![a] = @ - 1]
        /\ waiters' = [waiters EXCEPT ![a] = run_waiters_cancel(@)]
        /\ pc' = [pc EXCEPT ![a] = "rearm"]
        /\ UNCHANGED << unit_vars, core_vars, queue, event_vars, current, env, asker,
                        running, wi, actlet_vars, call >>

\* ---------------------------------------------------- objects and deepcopy
\* Python objects with identity.  heap[o] is the object at address o: an
\* Envelope refers to its message, a Message to the value of its one field (a
\* list, the mutable state of a message), an EnvelopeTracker to the envelope
\* in its _envelope attribute; a list holds a value and refers to nothing.
MaxObjects == 12       \* objects allocated in one run

NoObject == 0
Object(kind, ref, value) == [kind |-> kind, ref |-> ref, value |-> value]

\* copy.copy(o): a new object whose fields refer to the objects o's fields
\* refer to.
copy_copy(h, o) == [heap |-> Append(h, h[o]), at |-> Len(h) + 1]

\* copy.deepcopy(o): a new object whose fields are deep copies of o's fields.
RECURSIVE deepcopy(_, _)
deepcopy(h, o) ==
    IF h[o].ref = NoObject
        THEN [heap |-> Append(h, h[o]), at |-> Len(h) + 1]
        ELSE LET field == deepcopy(h, h[o].ref)
             IN  [heap |-> Append(field.heap, [h[o] EXCEPT !.ref = field.at]),
                  at |-> Len(field.heap) + 1]

\* The objects reachable from o, o included.
RECURSIVE Reachable(_, _)
Reachable(h, o) ==
    IF h[o].ref = NoObject THEN {o} ELSE {o} \cup Reachable(h, h[o].ref)

\* The list at the end of o's references, and the value it holds.
RECURSIVE ListOf(_, _)
ListOf(h, o) == IF h[o].ref = NoObject THEN o ELSE ListOf(h, h[o].ref)
ValueOf(h, o) == h[ListOf(h, o)].value

\* The sender constructs a message whose field is a new list.
new_message(value) ==
    /\ Len(heap) + 2 <= MaxObjects
    /\ heap' = heap \o << Object("list", NoObject, value),
                          Object("Message", Len(heap) + 1, "") >>
    /\ sender_messages' = sender_messages \cup {Len(heap) + 2}
    /\ UNCHANGED << outside_objects, sender_envelopes, mailbox, handling >>

\* Proxy.tell(context, message) on the proxy of `receiver`: the sender's
\* Envelope refers to the sender's message; Actor.post puts a deep copy of it
\* and the tracker of the copy in the queue and returns the tracker.
post_deepcopy(message, receiver) ==
    LET envelope == Len(heap) + 1
        copied == deepcopy(Append(heap, Object("Envelope", message, "")), envelope)
        tracker_object == Len(copied.heap) + 1
    IN  /\ message \in sender_messages
        /\ tracker_object <= MaxObjects
        /\ heap' = Append(copied.heap, Object("EnvelopeTracker", copied.at, ""))
        /\ sender_envelopes' = sender_envelopes \cup {envelope}
        /\ mailbox' = [mailbox EXCEPT ![receiver] =
                          Append(@, [envelope |-> copied.at,
                                     tracker |-> tracker_object,
                                     sent |-> ValueOf(heap, message)])]
        /\ UNCHANGED << outside_objects, sender_messages, handling >>

\* The sender changes the list of one of its messages in place.
sender_mutates(message, value) ==
    /\ message \in sender_messages
    /\ ValueOf(heap, message) # value
    /\ heap' = [heap EXCEPT ![ListOf(heap, message)].value = value]
    /\ UNCHANGED << outside_objects, sender_messages, sender_envelopes,
                    mailbox, handling >>

\* Actor.serve takes the head of the queue and invokes the handler with the
\* envelope's message.
handler_invoked(receiver) ==
    /\ handling[receiver] = << >>
    /\ mailbox[receiver] # << >>
    /\ handling' = [handling EXCEPT ![receiver] = << Head(mailbox[receiver]) >>]
    /\ mailbox' = [mailbox EXCEPT ![receiver] = Tail(@)]
    /\ UNCHANGED << outside_objects, heap, sender_messages, sender_envelopes >>

\* The handler changes the list of the message it was given in place.
handler_mutates(receiver, value) ==
    /\ handling[receiver] # << >>
    /\ ValueOf(heap, handling[receiver][1].envelope) # value
    /\ heap' = [heap EXCEPT ![ListOf(heap, handling[receiver][1].envelope)].value = value]
    /\ UNCHANGED << outside_objects, sender_messages, sender_envelopes,
                    mailbox, handling >>

\* The handler returns.
handler_done(receiver) ==
    /\ handling[receiver] # << >>
    /\ handling' = [handling EXCEPT ![receiver] = << >>]
    /\ UNCHANGED << outside_objects, heap, sender_messages, sender_envelopes,
                    mailbox >>

\* ------------------------------------------------------------- Router.add
\* A class a handler is registered for: its module, its __name__ and whether
\* it inherits from Message.  Two classes of one name in two modules are two
\* classes.
MessageClass(module, name, message) ==
    [module |-> module, name |-> name, message |-> message]

\* A handler function: its __qualname__, its parameter names in order, and
\* whether it is defined with `async def`.
Function(name, parameters, coroutine) ==
    [name |-> name, parameters |-> parameters, coroutine |-> coroutine]

\* inspect.signature(_func) of router.py: (self, context, message).
MESSAGE_HANDLER_SIGNATURE == << "self", "context", "message" >>

\* signature._parameters.keys(): a keys view, which compares as a set.
parameter_keys(parameters) == {parameters[i] : i \in DOMAIN parameters}

\* signature._parameters.keys() != MESSAGE_HANDLER_SIGNATURE._parameters.keys()
\* is false for `parameters`.
same_parameters(parameters) ==
    parameter_keys(parameters) = parameter_keys(MESSAGE_HANDLER_SIGNATURE)

\* Router(): the two dicts, each as the list of its items in insertion order.
EmptyRouter == [handlers |-> << >>, names |-> << >>]

handled_classes(r) == {r.handlers[i].message_cls : i \in DOMAIN r.handlers}
handled_messages_names(r) == {r.names[i].name : i \in DOMAIN r.names}

\* self._handlers.get(message_cls): the handler, or NoFunction.
NoFunction == Function("None", << >>, FALSE)
handlers_get(r, message_cls) ==
    IF message_cls \in handled_classes(r)
        THEN (CHOOSE item \in {r.handlers[i] : i \in DOMAIN r.handlers} :
                 item.message_cls = message_cls).func
        ELSE NoFunction

\* Router.add: the four checks in the order of the code, then the two
\* assignments.  The result holds the exception raised ("none" if none) and
\* the router afterwards.
Router_add(r, message_cls, func) ==
    CASE ~message_cls.message -> [raised |-> "RuntimeError", router |-> r]
      [] ~same_parameters(func.parameters) -> [raised |-> "RuntimeError", router |-> r]
      [] ~func.coroutine -> [raised |-> "RuntimeError", router |-> r]
      [] message_cls.name \in handled_messages_names(r) ->
             [raised |-> "RuntimeError", router |-> r]
      [] OTHER ->
             [raised |-> "none",
              router |->
                 [names |-> Append(r.names, [name |-> message_cls.name,
                                             message_cls |-> message_cls]),
                  handlers |-> Append(r.handlers, [message_cls |-> message_cls,
                                                   func |-> func])]]

\* The classes and functions of test_router.py, and a handler whose
\* parameters are those of the signature in another order.
SomeMessageClass == MessageClass("test_router", "SomeMessage", TRUE)
MessageClasses ==
    {SomeMessageClass,
     MessageClass("test_router", "DummyMessage", TRUE),
     MessageClass("conftest", "DummyMessage", TRUE),
     MessageClass("test_router", "MessageWithNoMessageBase", FALSE)}

Functions ==
    {Function("handler", << "self", "context", "message" >>, TRUE),
     Function("other_handler", << "self", "context", "message" >>, TRUE),
     Function("handler_var", << "self", "context", "message", "var" >>, TRUE),
     Function("handler_sync", << "self", "context", "message" >>, FALSE),
     Function("handler_swapped", << "self", "message", "context" >>, TRUE)}

qualname(message_cls) == message_cls.module \o "." \o message_cls.name

\* A call router.add(message_cls, func) on the router under test.
router_add_call(message_cls, func) ==
    LET added == Router_add(router, message_cls, func)
    IN  /\ router' = added.router
        /\ call' = Call("Router.add", qualname(message_cls), func.name, added.raised)
        /\ classes' = classes
        /\ UNCHANGED outside_router

\* ----------------------------------------------------------- ActorMetaclass
\* A class made by ActorMetaclass: its name, the names of its bases in
\* declaration order, the handlers its body declares with @register_handler
\* (method._handle and the method, in the order of the body) and its _router.
ClassNames == << "Actor", "B1", "B2", "C" >>
defined_names(cs) == {cs[i].name : i \in DOMAIN cs}
class_named(cs, name) == CHOOSE c \in {cs[i] : i \in DOMAIN cs} : c.name = name

\* The classes `name` inherits from, directly or not.
RECURSIVE ancestors(_, _)
ancestors(cs, name) ==
    IF name \notin defined_names(cs) THEN {}
    ELSE LET bases == class_named(cs, name).bases
         IN  {bases[i] : i \in DOMAIN bases}
             \cup UNION {ancestors(cs, bases[i]) : i \in DOMAIN bases}

\* The first loop of __new__: router.add(method._handle, method) for each
\* declared handler; an exception of add ends the class statement.
RECURSIVE add_declared(_, _)
add_declared(r, dct) ==
    IF dct = << >> THEN [raised |-> "none", router |-> r]
    ELSE LET added == Router_add(r, Head(dct).handle, Head(dct).func)
         IN  IF added.raised # "none" THEN added
             ELSE add_declared(added.router, Tail(dct))

\* The inner loop of __new__ over base._router._handlers.items(): an item
\* whose class is not yet a key of the new router is added.
RECURSIVE copy_items(_, _)
copy_items(r, items) ==
    IF items = << >> THEN [raised |-> "none", router |-> r]
    ELSE IF Head(items).message_cls \in handled_classes(r)
        THEN copy_items(r, Tail(items))
        ELSE LET added == Router_add(r, Head(items).message_cls, Head(items).func)
             IN  IF added.raised # "none" THEN added
                 ELSE copy_items(added.router, Tail(items))

\* The outer loop taken from the last base to the first.
RECURSIVE copy_bases_last_first(_, _, _)
copy_bases_last_first(r, cs, bases) ==
    IF bases = << >> THEN [raised |-> "none", router |-> r]
    ELSE LET last == bases[Len(bases)]
             rest == SubSeq(bases, 1, Len(bases) - 1)
         IN  IF last \notin defined_names(cs)
                 THEN copy_bases_last_first(r, cs, rest)
                 ELSE LET copied == copy_items(r, class_named(cs, last).router.handlers)
                      IN  IF copied.raised # "none" THEN copied
                          ELSE copy_bases_last_first(copied.router, cs, rest)

\* The outer loop of __new__: the bases in declaration order, those without
\* a _router (Service) skipped.
RECURSIVE copy_bases(_, _, _)
copy_bases(r, cs, bases) ==
    IF bases = << >> THEN [raised |-> "none", router |-> r]
    ELSE IF Head(bases) \notin defined_names(cs)
        THEN copy_bases(r, cs, Tail(bases))
        ELSE LET copied == copy_items(r, class_named(cs, Head(bases)).router.handlers)
             IN  IF copied.raised # "none" THEN copied
                 ELSE copy_bases(copied.router, cs, Tail(bases))

\* ActorMetaclass.__new__(cls, name, bases, dct): the router of the new class,
\* or the exception the class statement ends with.
ActorMetaclass_new(cs, bases, dct) ==
    LET own == add_declared(EmptyRouter, dct)
    IN  IF own.raised # "none" THEN own ELSE copy_bases(own.router, cs, bases)

\* The message classes of libactors.actor.messages the base Actor handles.
ShutdownMessageClass == MessageClass("libactors.actor.messages", "ShutdownMessage", TRUE)
ActletDoneMessageClass == MessageClass("libactors.actor.messages", "ActletDoneMessage", TRUE)
TimerDoneMessageClass == MessageClass("libactors.actor.messages", "TimerDoneMessage", TRUE)

Declared(handle, name) ==
    [handle |-> handle,
     func |-> Function(name, MESSAGE_HANDLER_SIGNATURE, TRUE)]

\* The body of class Actor.
ActorDeclarations ==
    << Declared(ShutdownMessageClass, "Actor.handle_shutdown"),
       Declared(ActletDoneMessageClass, "Actor.handle_actlet_done"),
       Declared(TimerDoneMessageClass, "Actor.handle_timer_done") >>

\* The bodies of the classes under test, as the classes their handlers are
\* declared for: none, one, two, two of one simple name, and one class twice.
Bodies ==
    {<< >>,
     << SomeMessageClass >>,
     << ShutdownMessageClass >>,
     << MessageClass("test_router", "DummyMessage", TRUE) >>,
     << SomeMessageClass, ShutdownMessageClass >>,
     << SomeMessageClass, MessageClass("conftest", "DummyMessage", TRUE) >>,
     << MessageClass("test_router", "DummyMessage", TRUE),
        MessageClass("conftest", "DummyMessage", TRUE) >>,
     << SomeMessageClass, SomeMessageClass >>}

MethodNames == << "handler", "other_handler" >>

Declarations(name) ==
    {[i \in DOMAIN body |-> Declared(body[i], name \o "." \o MethodNames[i])] :
        body \in Bodies}

\* The base lists a class statement may have: one or two classes defined
\* before, none of them an ancestor of another (a consistent resolution order).
BaseLists(cs) ==
    {<< b >> : b \in defined_names(cs)}
    \cup {<< b1, b2 >> : b1, b2 \in defined_names(cs)} 

consistent_bases(cs, bases) ==
    \A i, j \in DOMAIN bases :
        i # j => bases[i] # bases[j] /\ bases[i] \notin ancestors(cs, bases[j])

\* A class statement: `class name(bases): dct`.  The classes are defined in
\* the order of ClassNames, Actor first with Service as its base.
define_class(name, bases, dct) ==
    LET made == ActorMetaclass_new(classes, bases, dct)
    IN  /\ Len(classes) < Len(ClassNames)
        /\ name = ClassNames[Len(classes) + 1]
        /\ classes' = IF made.raised # "none" THEN classes
                      ELSE Append(classes, [name |-> name, bases |-> bases,
                                            dct |-> dct, router |-> made.router])
        /\ call' = Call("ActorMetaclass.__new__", name, "", made.raised)
        /\ router' = router
        /\ UNCHANGED outside_router

\* ------------------------------------------------------- Service (worker)
\* How the task ends when its coroutine ends with exception exc.
task_outcome(exc) ==
    CASE exc = "none" -> "returned"
      [] exc = "CancelledError" -> "cancelled"
      [] OTHER -> "raised"

\* The finally clause of _service_worker when teardown is not called:
\* _mark_stopping(), and the task ends with exc.
worker_finally(s, exc) ==
    [s EXCEPT !.stop_event = TRUE, !.pc = "ended", !.exc = "none",
              !.task = task_outcome(exc), !.must_cancel = FALSE]

\* The finally clause up to the call of teardown(), which suspends.
worker_teardown(s, exc) ==
    [s EXCEPT !.teardown_calls = @ + 1, !.pc = "teardown", !.exc = exc,
              !.must_cancel = FALSE]

service_step(s) ==
    /\ service' = s
    /\ UNCHANGED << wait_ready_caller, outside_service >>

\* Service.start(): the task is made and the done callback attached.
service_start ==
    /\ service.pc = "none"
    /\ service_step([service EXCEPT !.pc = "created", !.task = "pending"])

\* Service.stop(): _mark_stopping().
service_stop ==
    /\ ~service.stop_event
    /\ service_step([service EXCEPT !.stop_event = TRUE])

\* task.cancel() on the pending task.
service_task_cancel ==
    /\ service.task = "pending"
    /\ ~service.must_cancel
    /\ service_step([service EXCEPT !.must_cancel = TRUE])

\* The first step of the task: a task cancelled before it ran ends without
\* running the coroutine; otherwise setup() is called and suspends.
service_worker_first_step ==
    /\ service.pc = "created"
    /\ service_step(IF service.must_cancel
                       THEN [service EXCEPT !.pc = "ended", !.task = "cancelled",
                                            !.must_cancel = FALSE]
                       ELSE [service EXCEPT !.pc = "setup"])

\* setup() returns: setup_called = True, _mark_ready(), serve() is entered
\* and suspends.
service_setup_returns ==
    /\ service.pc = "setup"
    /\ ~service.must_cancel
    /\ service_step([service EXCEPT !.setup_called = TRUE, !.ready_event = TRUE,
                                    !.pc = "serve"])

\* setup() raises, or the cancellation is delivered inside it.
service_setup_raises ==
    /\ service.pc = "setup"
    /\ service_step(worker_finally(service,
                        IF service.must_cancel THEN "CancelledError" ELSE "Exception"))

\* serve() returns: the serve of Service returns when stop_event is set.
service_serve_returns ==
    /\ service.pc = "serve"
    /\ ~service.must_cancel
    /\ service.stop_event
    /\ service_step(worker_teardown(service, "none"))

\* serve() raises, or the cancellation is delivered inside it.
service_serve_raises ==
    /\ service.pc = "serve"
    /\ service_step(worker_teardown(service,
                        IF service.must_cancel THEN "CancelledError" ELSE "Exception"))

\* teardown() returns: the rest of the finally clause.
service_teardown_returns ==
    /\ service.pc = "teardown"
    /\ ~service.must_cancel
    /\ service_step(worker_finally(service, service.exc))

\* teardown() raises, or the cancellation is delivered inside it: the finally
\* clause is left before _mark_stopping().
service_teardown_raises ==
    /\ service.pc = "teardown"
    /\ service_step([service EXCEPT
           !.pc = "ended", !.exc = "none", !.must_cancel = FALSE,
           !.task = IF service.must_cancel THEN "cancelled" ELSE "raised"])

\* Service._on_worker_done(task): task.exception() raises CancelledError for
\* a cancelled task, which ends the callback; otherwise the three events are
\* set.
service_on_worker_done ==
    /\ service.pc = "ended"
    /\ ~service.callback_ran
    /\ service_step(IF service.task = "cancelled"
                       THEN [service EXCEPT !.callback_ran = TRUE]
                       ELSE [service EXCEPT !.callback_ran = TRUE,
                                            !.ready_event = TRUE,
                                            !.done_event = TRUE,
                                            !.stop_event = TRUE])

\* Service.wait_ready() after `await self._ready_event.wait()`: how the call
\* ends.
wait_ready_outcome(s) ==
    CASE s.task = "raised" -> "ServiceStartupException"
      [] s.task = "cancelled" -> "CancelledError"
      [] OTHER -> "returned"

\* A client calls wait_ready(): it raises for a service that is not started,
\* goes on without a suspension when ready_event is set, and waits otherwise.
wait_ready_call ==
    /\ wait_ready_caller.st = "idle"
    /\ wait_ready_caller' =
          CASE service.task = "none" -> [st |-> "idle", last |-> "ServiceException"]
            [] service.ready_event -> [st |-> "idle", last |-> wait_ready_outcome(service)]
            [] OTHER -> [st |-> "waiting", last |-> "none"]
    /\ UNCHANGED << service, outside_service >>

\* The waiting client is woken by ready_event.set().
wait_ready_resume ==
    /\ wait_ready_caller.st = "waiting"
    /\ service.ready_event
    /\ wait_ready_caller' = [st |-> "idle", last |-> wait_ready_outcome(service)]
    /\ UNCHANGED << service, outside_service >>

\* ----------------------------------------------- MultiWaiter (on its own)
\* A MultiWaiter used by one caller.  Fields of `multi_waiter`:
\*   objects: _objects, the Waiter of each key in insertion order, `waiter`
\*            being the task of its operation (NoTask for None)
\*   tasks: the keys of _tasks, the tasks that map to their key
\*   ops: every task created, by number: its key and its state, "created"
\*        (first step not run), "pending", "done", "cancelling" (cancel()
\*        called, CancelledError not yet delivered) or "cancelled"
\* Fields of `waiter_caller`: the call in progress (op, pc), the tasks it
\* gathers, the keys it creates tasks for, and how its last call ended.
MaxOperations == 4     \* tasks created in one run

WaiterKeys == {"k1", "k2"}
NoTask == 0

registered_keys(m) == {m.objects[i].key : i \in DOMAIN m.objects}
current_tasks(m) == {m.objects[i].waiter : i \in DOMAIN m.objects} \ {NoTask}

\* task.done()
task_done(m, o) == m.ops[o].state \in {"done", "cancelled"}

\* A condition that holds for every task, done or not.
should_cancel_always(state, recreate) == TRUE

\* obj.waiter.done() or recreate
should_cancel(state, recreate) == state \in {"done", "cancelled"} \/ recreate

\* `for obj in (self._objects[key] for key in keys)`: the objects visited.
selected(key, keys) == key \in keys

\* The objects the first loop of _run_waiters cancels: those of `keys` whose
\* task is done, or any task with recreate.
to_cancel(m, recreate, keys) ==
    {i \in DOMAIN m.objects :
        /\ selected(m.objects[i].key, keys)
        /\ m.objects[i].waiter # NoTask
        /\ should_cancel(m.ops[m.objects[i].waiter].state, recreate)}

\* `self._tasks.pop(obj.waiter)` raises KeyError for a task that is not in
\* _tasks: the first object at which it does, 0 when there is none.
key_error_at(m, recreate, keys) ==
    LET missing == {i \in to_cancel(m, recreate, keys) : m.objects[i].waiter \notin m.tasks}
    IN  IF missing = {} THEN 0
        ELSE CHOOSE i \in missing : \A j \in missing : i <= j

\* The first loop of _run_waiters over the objects of `keys`: the tasks to
\* cancel are cancelled, popped from _tasks and cleared from their object, up
\* to the object at which pop raises (its task has been cancelled, no more).
run_waiters_pop(m, recreate, keys) ==
    LET stop == key_error_at(m, recreate, keys)
        popped == {i \in to_cancel(m, recreate, keys) : stop = 0 \/ i < stop}
        cancelled == {m.objects[i].waiter : i \in popped}
        cancel_called == cancelled \cup
                            (IF stop = 0 THEN {} ELSE {m.objects[stop].waiter})
    IN  [objects |-> [i \in DOMAIN m.objects |->
                         IF i \in popped
                             THEN [m.objects[i] EXCEPT !.waiter = NoTask]
                             ELSE m.objects[i]],
         tasks |-> m.tasks \ cancelled,
         ops |-> [o \in DOMAIN m.ops |->
                     IF o \in cancel_called /\ m.ops[o].state \in {"created", "pending"}
                         THEN [m.ops[o] EXCEPT !.state = "cancelling"]
                         ELSE m.ops[o]]]

\* Every registered key, with or without a task.
to_create_all(m, keys) == registered_keys(m)

\* The keys of to_create: the objects of `keys` left without a task.
to_create(m, keys) ==
    {m.objects[i].key : i \in {j \in DOMAIN m.objects :
                                  selected(m.objects[j].key, keys)
                                  /\ m.objects[j].waiter = NoTask}}

\* The last loop of _run_waiters: a task is created for each object of
\* `creating`, in the order of the objects, and entered in _tasks.
RECURSIVE run_waiters_start(_, _, _)
run_waiters_start(m, creating, i) ==
    IF i > Len(m.objects) THEN m
    ELSE IF m.objects[i].key \notin creating THEN run_waiters_start(m, creating, i + 1)
    ELSE run_waiters_start(
            [objects |-> [m.objects EXCEPT ![i].waiter = Len(m.ops) + 1],
             tasks |-> m.tasks \cup {Len(m.ops) + 1},
             ops |-> Append(m.ops, [key |-> m.objects[i].key, state |-> "created"])],
            creating, i + 1)

\* The keys wait_first returns: those of the tasks of the objects that are done.
done_keys(m) ==
    {m.objects[i].key : i \in {j \in DOMAIN m.objects :
                                  m.objects[j].waiter # NoTask
                                  /\ task_done(m, m.objects[j].waiter)}}

\* result(key): the result of the task of the key, each task having a result
\* of its own; MultiWaiterNotDoneException without a task or before it is done.
MultiWaiter_result(m, key) ==
    LET at == CHOOSE i \in DOMAIN m.objects : m.objects[i].key = key
        o == m.objects[at].waiter
    IN  CASE o = NoTask -> [value |-> NoTask, raised |-> "MultiWaiterNotDoneException"]
          [] m.ops[o].state = "done" -> [value |-> o, raised |-> "none"]
          [] m.ops[o].state = "cancelled" -> [value |-> NoTask, raised |-> "CancelledError"]
          [] OTHER -> [value |-> NoTask, raised |-> "MultiWaiterNotDoneException"]

Idle(op, returned, raised) ==
    [op |-> op, pc |-> "idle", gathered |-> {}, creating |-> {},
     returned |-> returned, raised |-> raised]

\* What follows `await self._run_waiters(...)`: reset returns; wait_first
\* calls asyncio.wait, which raises ValueError for no task at all and
\* suspends otherwise, also when a task is done already: the tasks just
\* created run their first step before it returns.
after_run_waiters(m, op) ==
    CASE op = "reset" -> Idle(op, {}, "none")
      [] m.objects = << >> -> Idle(op, {}, "ValueError")
      [] OTHER -> [op |-> op, pc |-> "waiting", gathered |-> {}, creating |-> {},
                   returned |-> {}, raised |-> "none"]

\* MultiWaiter.add(key, waiter_factory).
MultiWaiter_add(key) ==
    /\ waiter_caller.pc = "idle"
    /\ IF key \in registered_keys(multi_waiter)
          THEN /\ waiter_caller' = Idle("add", {}, "MultiWaiterKeyAlreadyExistsException")
               /\ UNCHANGED multi_waiter
          ELSE /\ waiter_caller' = Idle("add", {}, "none")
               /\ multi_waiter' = [multi_waiter EXCEPT !.objects =
                                      Append(@, [key |-> key, waiter |-> NoTask])]
    /\ UNCHANGED outside_waiter

\* wait_first() (recreate false, no keys) or reset(*keys) (recreate true) up
\* to the first suspension: _run_waiters up to its gather, or, with nothing
\* to gather, through the creation of the tasks to what follows.
MultiWaiter_call(op, recreate, keys_argument) ==
    LET keys == IF keys_argument = {} THEN registered_keys(multi_waiter) ELSE keys_argument
        popped == run_waiters_pop(multi_waiter, recreate, keys)
        cancelled == multi_waiter.tasks \ popped.tasks
        creating == to_create(popped, keys)
        started == run_waiters_start(popped, creating, 1)
    IN  /\ waiter_caller.pc = "idle"
        /\ Len(multi_waiter.ops) + Cardinality(creating) <= MaxOperations
        /\ IF key_error_at(multi_waiter, recreate, keys) # 0
              THEN /\ multi_waiter' = popped
                   /\ waiter_caller' = Idle(op, {}, "KeyError")
              ELSE IF cancelled # {}
              THEN /\ multi_waiter' = popped
                   /\ waiter_caller' = [op |-> op, pc |-> "gather", gathered |-> cancelled,
                                        creating |-> creating, returned |-> {},
                                        raised |-> "none"]
              ELSE /\ multi_waiter' = started
                   /\ waiter_caller' = after_run_waiters(started, op)
        /\ UNCHANGED outside_waiter

\* The gather of the cancelled tasks has ended: the tasks are created and
\* the call goes on.
MultiWaiter_gathered ==
    LET started == run_waiters_start(multi_waiter, waiter_caller.creating, 1)
    IN  /\ waiter_caller.pc = "gather"
        /\ \A o \in waiter_caller.gathered : task_done(multi_waiter, o)
        /\ multi_waiter' = started
        /\ waiter_caller' = after_run_waiters(started, waiter_caller.op)
        /\ UNCHANGED outside_waiter

\* asyncio.wait(FIRST_COMPLETED) returns to wait_first: a task is done, and
\* the tasks created by the call have run their first step.
MultiWaiter_wait_returns ==
    /\ waiter_caller.pc = "waiting"
    /\ done_keys(multi_waiter) # {}
    /\ \A o \in current_tasks(multi_waiter) : multi_waiter.ops[o].state # "created"
    /\ waiter_caller' = Idle("wait_first", done_keys(multi_waiter), "none")
    /\ UNCHANGED << multi_waiter, outside_waiter >>

\* Mutant: cancel() finds no task to cancel.
to_gather_none(m) == {}

\* The tasks cancel() cancels and gathers: those of the objects, not done.
to_gather(m) == {o \in current_tasks(m) : ~task_done(m, o)}

\* The loop of cancel(): obj.waiter.cancel() for each of them; obj.waiter and
\* _tasks are left as they are.
cancel_loop(m) ==
    [m EXCEPT !.ops = [o \in DOMAIN m.ops |->
                          IF o \in to_gather(m) THEN [m.ops[o] EXCEPT !.state = "cancelling"]
                          ELSE m.ops[o]]]


\* `self._tasks.clear()`, the last statement of cancel().
clear_tasks(m) == [m EXCEPT !.tasks = {}]

\* cancel() up to its gather; with no task to gather it does not suspend and
\* clears _tasks in the same step.
cancel_entered ==
    /\ IF to_gather(multi_waiter) = {}
          THEN /\ multi_waiter' = clear_tasks(multi_waiter)
               /\ waiter_caller' = Idle("cancel", {}, "none")
          ELSE /\ multi_waiter' = cancel_loop(multi_waiter)
               /\ waiter_caller' = [op |-> "cancel", pc |-> "cancel_gather",
                                    gathered |-> to_gather(multi_waiter),
                                    creating |-> {}, returned |-> {}, raised |-> "none"]
    /\ UNCHANGED outside_waiter

\* MultiWaiter.cancel(), called between two calls: by the caller, or by
\* in_multi_waiter when its block ends or raises.
MultiWaiter_cancel ==
    /\ waiter_caller.pc = "idle"
    /\ cancel_entered

\* in_multi_waiter when an exception (a CancelledError) is thrown into the
\* block while it is suspended in reset() or wait_first(): the finally clause
\* calls cancel().
in_multi_waiter_interrupted ==
    /\ waiter_caller.pc \in {"gather", "waiting"}
    /\ cancel_entered

\* The gather of cancel() has ended: _tasks is cleared and cancel() returns.
MultiWaiter_cancel_gathered ==
    /\ waiter_caller.pc = "cancel_gather"
    /\ \A o \in waiter_caller.gathered : task_done(multi_waiter, o)
    /\ multi_waiter' = clear_tasks(multi_waiter)
    /\ waiter_caller' = Idle("cancel", {}, "none")
    /\ UNCHANGED outside_waiter

\* A step of the task of an operation: its first step suspends or ends it, a
\* later step ends it, and a cancelled task ends cancelled.
operation_step(o, state) ==
    /\ o \in DOMAIN multi_waiter.ops
    /\ \/ multi_waiter.ops[o].state = "created" /\ state \in {"pending", "done"}
       \/ multi_waiter.ops[o].state = "pending" /\ state = "done"
       \/ multi_waiter.ops[o].state = "cancelling" /\ state = "cancelled"
    /\ multi_waiter' = [multi_waiter EXCEPT !.ops[o].state = state]
    /\ UNCHANGED << waiter_caller, outside_waiter >>

\* ------------------------------------------------------------- Actor.stop
\* `await actor.stop(context)` called from outside the actor's handlers, by
\* any code that holds the actor: Service.stop() sets stop_event.  (There are
\* no stop callbacks.)
Actor_stop(a) ==
    /\ pc[a] # "none"
    /\ ~stop_event[a]
    /\ stop_event' = [stop_event EXCEPT ![a] = TRUE]
    /\ UNCHANGED << unit_vars, core_vars, pc, queue, unfinished_tasks, ready_event,
                    done_event, initialize_event, initialize_exception, shutdown_event,
                    task_exception, init_sets, initialize_result, waiters, current,
                    post_vars, running, wi, actlet_vars, call >>

\* --------------------------------- Actor.serve: initialize() raises, by statement
\* The except clause of serve, one statement at a time: initialize_event.set()
\* comes first, the assignment of _initialize_exception second, and `raise`
\* leads into the finally clauses.  No await stands between them: while the
\* serve task is between the two statements (pc "stash") no other task runs.
initialize_raises_sets_event(a) ==
    /\ pc[a] = "initialize"
    /\ initialize_event' = [initialize_event EXCEPT ![a] = TRUE]
    /\ init_sets' = [init_sets EXCEPT ![a] = init_sets[a] + 1]
    /\ initialize_result' = [initialize_result EXCEPT ![a] = "raised"]
    /\ pc' = [pc EXCEPT ![a] = "stash"]
    /\ UNCHANGED << unit_vars, core_vars, queue, unfinished_tasks, stop_event, ready_event,
                    done_event, initialize_exception, shutdown_event, task_exception,
                    waiters, current, post_vars, running, wi, actlet_vars, call >>

\* Mutant: the exception is re-raised without being stashed.
initialize_raises_stashes_nothing(a) ==
    /\ pc[a] = "stash"
    /\ serve_finally(a, "initialize")
    /\ UNCHANGED << unit_vars, core_running, core_pc, core_proxies, queue,
                    unfinished_tasks, ready_event, done_event, initialize_event,
                    initialize_exception, init_sets, initialize_result, waiters, current,
                    post_vars, running, wi, actlet_vars, call >>

initialize_raises_stashes(a) ==
    /\ pc[a] = "stash"
    /\ initialize_exception' = [initialize_exception EXCEPT ![a] = TRUE]
    /\ serve_finally(a, "initialize")
    /\ UNCHANGED << unit_vars, core_running, core_pc, core_proxies, queue,
                    unfinished_tasks, ready_event, done_event, initialize_event,
                    init_sets, initialize_result, waiters, current,
                    post_vars, running, wi, actlet_vars, call >>

\* The serve task of some actor is between the two statements.
Uninterrupted == \E a \in ActorIds : pc[a] = "stash"

\* ----------------------------------------------------- Context (on its own)
\* One Context shared by the tasks of BindTasks, each running callables
\* decorated with Context.bind_function (or `with context.bind(...)` blocks)
\* that suspend inside the scope.  `bind_scopes[t]` holds the old_log local of
\* each scope task t has open, innermost first.
MaxScopes == 3     \* bind() scopes open at the same time

\* The keyword arguments of a bind() call: some keys, each with a value.
Bindings == [LogKeys -> LogValues \cup {Unbound}]

\* log.bind(**bindings): a logger with the bindings added to those it has, a
\* key bound again taking the new value.
Logger_bind(log, bindings) ==
    [k \in LogKeys |-> IF bindings[k] # Unbound THEN bindings[k] ELSE log[k]]

\* `self._log = old_log` in the finally clause: the logger saved by the scope
\* that ends.
restore(log, scopes) == Head(scopes)

OpenScopes == Len(bind_scopes["t1"]) + Len(bind_scopes["t2"])

\* Context.bind entered by task t, up to its yield: old_log is saved and the
\* logger replaced by the bound one.
bind_enter(t, bindings) ==
    /\ OpenScopes < MaxScopes
    /\ bind_scopes' = [bind_scopes EXCEPT ![t] = << context_log >> \o @]
    /\ context_log' = Logger_bind(context_log, bindings)
    /\ UNCHANGED outside_context

\* The innermost scope of task t ends, by the end of its block or by an
\* exception: the finally clause puts old_log back.
bind_exit(t) ==
    /\ bind_scopes[t] # << >>
    /\ context_log' = restore(context_log, bind_scopes[t])
    /\ bind_scopes' = [bind_scopes EXCEPT ![t] = Tail(@)]
    /\ UNCHANGED outside_context

\* ------------------------------------------------------------ specification
ActorStep(a) ==
    \/ service_worker_start(a)
    \/ initialize_returns(a)
    \/ initialize_raises(a)
    \/ stop_task_step(a)
    \/ get_task_step(a)
    \/ serve_break(a)
    \/ serve_unhandled(a)
    \/ serve_dispatch(a)
    \/ handler_returns(a)
    \/ handler_raises(a)
    \/ run_waiters_resume(a)
    \/ serve_cancelled(a)
    \/ on_worker_done(a)

Next ==
    \/ \E a \in ActorIds : create_actor(a)
    \/ \E a \in ActorIds : ActorStep(a)
    \/ \E s \in Senders, a \in ActorIds, m \in ClientMessages : ask(s, a, m)
    \/ \E e \in Envelopes : ask_resume(e)
    \/ shutdown_begin
    \/ shutdown_returns
    \/ \E a \in ActorIds : wait_until_initialized(a)
    \/ \E a \in ActorIds : wait_until_initialized_resume(a)

Spec == Init /\ [][Next]_vars

\* The scheduling the event loop guarantees: every task that can run does run;
\* initialize() and the handlers terminate.
Fairness == \A a \in ActorIds :
    /\ WF_vars(service_worker_start(a))
    /\ WF_vars(initialize_returns(a) \/ initialize_raises(a))
    /\ WF_vars(stop_task_step(a))
    /\ WF_vars(get_task_step(a))
    /\ WF_vars(serve_break(a))
    /\ WF_vars(serve_unhandled(a))
    /\ WF_vars(serve_dispatch(a))
    /\ WF_vars(handler_returns(a))
    /\ WF_vars(handler_raises(a))
    /\ WF_vars(run_waiters_resume(a))
    /\ WF_vars(serve_cancelled(a))
    /\ WF_vars(on_worker_done(a))

\* The runtime without the steps in which a client only observes an outcome
\* (the resumption of an ask, wait_until_initialized): those steps change
\* nothing the actor or the Core reads.
NextServe ==
    \/ \E a \in ActorIds : create_actor(a)
    \/ \E a \in ActorIds : ActorStep(a)
    \/ \E s \in Senders, a \in ActorIds, m \in ClientMessages : ask(s, a, m)
    \/ shutdown_begin
    \/ shutdown_returns

SpecLive == Init /\ [][NextServe]_vars /\ Fairness

\* The computation of full ids alone.
NextJoin ==
    \E base \in Identities, actor_id \in ActorIdArguments :
        generate_actor_id_call(base, actor_id)

SpecJoin == Init /\ [][NextJoin]_vars

\* The Core API under client calls that succeed or fail: create_actor,
\* remove_actor, shutdown, with actors that are sent ShutdownMessage only.
CoreActorStep(a) ==
    \/ service_worker_start(a)
    \/ initialize_returns(a)
    \/ initialize_raises(a)
    \/ stop_task_step(a)
    \/ get_task_step(a)
    \/ serve_break(a)
    \/ serve_dispatch(a)
    \/ handler_returns(a)
    \/ run_waiters_resume(a)
    \/ serve_cancelled(a)
    \/ on_worker_done(a)

NextCore ==
    \/ \E a \in ActorIds : create_actor(a)
    \/ \E a \in ActorIds : create_actor_fails(a)
    \/ \E actor_id \in RemoveIds : remove_actor_call(actor_id)
    \/ \E a \in ActorIds : CoreActorStep(a)
    \/ \E a \in ActorIds : ask("/s1", a, ShutdownMessage)
    \/ shutdown_begin
    \/ shutdown_returns

\* The event loop resumes Core.shutdown when its gather is complete.
CoreFairness == WF_vars(shutdown_returns)

SpecCore == Init /\ [][NextCore]_vars /\ Fairness /\ CoreFairness

\* The runtime of an actor that uses actlets: the serve task, the actlet
\* tasks, calls of create_actlet / cancel_actlet, and a client that sends
\* ShutdownMessage (with no other client message the loop never meets a
\* message without a handler or a raising test handler).
ActletClientMessages == {ShutdownMessage}

ActletActorStep(a) ==
    \/ service_worker_start(a)
    \/ initialize_returns(a)
    \/ initialize_raises(a)
    \/ stop_task_step(a)
    \/ get_task_step(a)
    \/ serve_break(a)
    \/ serve_dispatch(a)
    \/ handler_returns(a)
    \/ handle_actlet_done(a)
    \/ \E i \in 1..MaxActlets : cancel_step(a, i)
    \/ run_waiters_resume(a)
    \/ serve_cancelled(a)
    \/ on_worker_done(a)

NextActlet ==
    \/ \E a \in ActorIds : create_actor(a)
    \/ \E a \in ActorIds : ActletActorStep(a)
    \/ \E a \in ActorIds, name \in ActletNames, function \in EntryPoints :
            create_actlet(a, name, function)
    \/ \E a \in ActorIds, name \in ActletNames : cancel_actlet(a, name)
    \/ \E i \in 1..MaxActlets, result \in ActletResults : actlet_returns(i, result)
    \/ \E i \in 1..MaxActlets : actlet_raises(i)
    \/ \E a \in ActorIds, m \in ActletClientMessages : ask("/s1", a, m)

\* The event loop runs the gathered cancel tasks and resumes the handler.
ActletFairness == \A a \in ActorIds :
    /\ WF_vars(handle_actlet_done(a))
    /\ \A i \in 1..MaxActlets : WF_vars(cancel_step(a, i))

SpecActlet == Init /\ [][NextActlet]_vars /\ Fairness /\ ActletFairness

\* No timer of the actor has had this name yet.
UnusedTimerName(a, name) ==
    \A i \in 1..Len(actlet) :
        actlet[i].name # generate_actlet_name(a, generate_timer_name(name))

\* An actor with timers: a timer is created at any time under a name not used
\* before and cancelled at any time, and a client may send a ShutdownMessage.
TimerActorStep(a) ==
    \/ CoreActorStep(a)
    \/ handle_actlet_done(a)
    \/ handle_timer_done(a)
    \/ \E i \in 1..MaxActlets : cancel_step(a, i)

NextTimer ==
    \/ \E a \in ActorIds : create_actor(a)
    \/ \E a \in ActorIds : TimerActorStep(a)
    \/ \E a \in ActorIds, name \in TimerNames,
          configuration \in TimerConfigurations :
            UnusedTimerName(a, name) /\ create_timer(a, name, configuration)
    \/ \E a \in ActorIds, name \in TimerNames : cancel_timer(a, name)
    \/ \E i \in 1..MaxActlets : timer_step(i)
    \/ \E a \in ActorIds : ask("/s1", a, ShutdownMessage)

\* The event loop runs every timer task that is ready (a sleep ends), and the
\* handlers without a suspension when their message is received.
TimerFairness ==
    /\ \A a \in ActorIds : WF_vars(handle_timer_done(a))
    /\ \A i \in 1..MaxActlets : WF_vars(timer_step(i))

SpecTimer ==
    Init /\ [][NextTimer]_vars /\ Fairness /\ ActletFairness /\ TimerFairness

\* Timers created with `repetitions` zero or negative, everything else sound.
NonPositiveRepetitions == {-2, -1, 0}

NonPositiveConfigurations ==
    {TimerConfiguration("SomeMessage", "number", 0, now, repetitions) :
        now \in BOOLEAN, repetitions \in NonPositiveRepetitions}

NextNonPositive ==
    \/ \E a \in ActorIds : create_actor(a)
    \/ \E a \in ActorIds : TimerActorStep(a)
    \/ \E a \in ActorIds, name \in TimerNames,
          configuration \in NonPositiveConfigurations :
            UnusedTimerName(a, name) /\ create_timer(a, name, configuration)
    \/ \E a \in ActorIds, name \in TimerNames : cancel_timer(a, name)
    \/ \E i \in 1..MaxActlets : timer_step(i)
    \/ \E a \in ActorIds : ask("/s1", a, ShutdownMessage)

SpecNonPositive == Init /\ [][NextNonPositive]_vars

\* Messages as objects: a sender that constructs messages, tells them to two
\* receivers and changes them afterwards, and handlers that change the
\* messages they are given.
NextCopy ==
    \/ \E value \in Payloads : new_message(value)
    \/ \E message \in sender_messages, receiver \in Receivers :
          post_deepcopy(message, receiver)
    \/ \E message \in sender_messages, value \in Payloads :
          sender_mutates(message, value)
    \/ \E receiver \in Receivers : handler_invoked(receiver)
    \/ \E receiver \in Receivers, value \in Payloads :
          handler_mutates(receiver, value)
    \/ \E receiver \in Receivers : handler_done(receiver)

SpecCopy == Init /\ [][NextCopy]_vars

\* One Router under add calls.
NextRouter ==
    \E message_cls \in MessageClasses, func \in Functions :
        router_add_call(message_cls, func)

SpecRouter == Init /\ [][NextRouter]_vars

\* Class statements: Actor, then three classes with any bodies and bases.
NextClass ==
    \/ define_class("Actor", << "Service" >>, ActorDeclarations)
    \/ /\ classes # << >>
       /\ Len(classes) < Len(ClassNames)
       /\ \E bases \in BaseLists(classes) :
             /\ consistent_bases(classes, bases)
             /\ \E dct \in Declarations(ClassNames[Len(classes) + 1]) :
                   define_class(ClassNames[Len(classes) + 1], bases, dct)

SpecClass == Init /\ [][NextClass]_vars

\* One Service: its worker, a client that stops it and waits for it to be
\* ready, and cancellation of its task.
NextService ==
    \/ service_start
    \/ service_stop
    \/ service_task_cancel
    \/ service_worker_first_step
    \/ service_setup_returns
    \/ service_setup_raises
    \/ service_serve_returns
    \/ service_serve_raises
    \/ service_teardown_returns
    \/ service_teardown_raises
    \/ service_on_worker_done
    \/ wait_ready_call
    \/ wait_ready_resume

SpecService == Init /\ [][NextService]_vars

\* One MultiWaiter: keys added, wait_first and reset called one after the
\* other, operations that end at any time.
NextWaiter ==
    \/ \E key \in WaiterKeys : MultiWaiter_add(key)
    \/ MultiWaiter_call("wait_first", FALSE, {})
    \/ \E keys \in SUBSET WaiterKeys : MultiWaiter_call("reset", TRUE, keys)
    \/ MultiWaiter_gathered
    \/ MultiWaiter_wait_returns
    \/ \E o \in 1..MaxOperations, state \in {"pending", "done", "cancelled"} :
          operation_step(o, state)

SpecWaiter == Init /\ [][NextWaiter]_vars

\* The MultiWaiter with cancel(), called by the caller or on leaving an
\* in_multi_waiter block.
NextCancel ==
    \/ \E key \in WaiterKeys : MultiWaiter_add(key)
    \/ MultiWaiter_call("wait_first", FALSE, {})
    \/ \E keys \in SUBSET WaiterKeys : MultiWaiter_call("reset", TRUE, keys)
    \/ MultiWaiter_gathered
    \/ MultiWaiter_wait_returns
    \/ MultiWaiter_cancel
    \/ in_multi_waiter_interrupted
    \/ MultiWaiter_cancel_gathered
    \/ \E o \in 1..MaxOperations, state \in {"pending", "done", "cancelled"} :
          operation_step(o, state)

SpecCancel == Init /\ [][NextCancel]_vars

\* The actor, its clients, and a stop requested from outside its handlers.
NextStop ==
    \/ \E a \in ActorIds : create_actor(a)
    \/ \E a \in ActorIds : ActorStep(a)
    \/ \E s \in Senders, a \in ActorIds, m \in ClientMessages : ask(s, a, m)
    \/ \E a \in ActorIds : Actor_stop(a)

SpecStop == Init /\ [][NextStop]_vars /\ Fairness

\* The runtime with the except clause of serve taken statement by statement:
\* between its two statements only the serve task goes on.
NextInitialize ==
    \/ \E a \in ActorIds : initialize_raises_stashes(a)
    \/ ~Uninterrupted /\ \E a \in ActorIds : initialize_raises_sets_event(a)
    \/ ~Uninterrupted /\ \E a \in ActorIds : create_actor(a)
    \/ ~Uninterrupted /\ \E a \in ActorIds : service_worker_start(a)
    \/ ~Uninterrupted /\ \E a \in ActorIds : initialize_returns(a)
    \/ ~Uninterrupted /\ \E a \in ActorIds : stop_task_step(a)
    \/ ~Uninterrupted /\ \E a \in ActorIds : get_task_step(a)
    \/ ~Uninterrupted /\ \E a \in ActorIds : serve_dispatch(a)
    \/ ~Uninterrupted /\ \E a \in ActorIds : handler_returns(a)
    \/ ~Uninterrupted /\ \E a \in ActorIds : run_waiters_resume(a)
    \/ ~Uninterrupted /\ \E a \in ActorIds : on_worker_done(a)
    \/ ~Uninterrupted /\ \E s \in Senders, a \in ActorIds, d \in DataValues :
                            ask(s, a, DataMessage(d))
    \/ ~Uninterrupted /\ \E e \in Envelopes : ask_resume(e)
    \/ ~Uninterrupted /\ \E a \in ActorIds : wait_until_initialized(a)
    \/ ~Uninterrupted /\ \E a \in ActorIds : wait_until_initialized_resume(a)

SpecInitialize == Init /\ [][NextInitialize]_vars

\* The Context and the tasks that open bind() scopes on it.
NextBind ==
    \/ \E t \in BindTasks, bindings \in Bindings : bind_enter(t, bindings)
    \/ \E t \in BindTasks : bind_exit(t)

SpecBind == Init /\ [][NextBind]_vars

\* ================================================================== claims
\* The serve loop has started to work on envelope e: its handler was invoked
\* or its tracker was resolved.
Dispatched(e) == calls[e] > 0 \/ sets[e] > 0

\* The tracker of envelope e has reached a terminal state.
Resolved(e) == tracker[e].state # "pending"

\* C1: no two handler invocations of one actor overlap: at any time at most
\* one handler invocation of an actor has started and not yet returned or
\* raised, also while that handler is suspended.
C1_HandlersNeverOverlap ==
    \A a \in ActorIds : Cardinality(running[a]) <= 1

\* C1 witness: a handler is suspended while another envelope waits in the mailbox.
C1_Witness ==
    \E a \in ActorIds : pc[a] = "handler" /\ running[a] # {} /\ queue[a] # << >>

C3_TrackerSetAtMostOnce ==
    \A e \in Envelopes :
        /\ calls[e] <= 1
        /\ sets[e] <= 1
        /\ Resolved(e) <=> sets[e] = 1

\* C3 witness: a handler was invoked for an envelope and its tracker was set.
C3_Witness ==
    \E e \in Envelopes : calls[e] = 1 /\ sets[e] = 1 /\ tracker[e].state = "exception"

\* The receiver of envelope e is no longer a live actor: its initialize raised
\* or its stop has been requested.
NotLive(a) == initialize_result[a] = "raised" \/ stop_event[a]

\* C4 as claimed, in the form a finite run refutes: once the serve task of the
\* receiver has ended nothing resolves a tracker any more, so every tracker
\* posted to it would have to be resolved by then.
C4_Original ==
    \A e \in Envelopes : pc[env[e].receiver] = "finished" => Resolved(e)

\* C4 amended: a tracker is set at most once, to a handler value, a handler
\* exception or the unhandled sentinel; and it eventually resolves unless the
\* receiver's initialize raised or the receiver's stop has been requested
\* (a tracker posted to such an actor may stay pending for ever).
C4_ResolvedOrNotLive(i) ==
    /\ i \in Envelopes
    /\ Resolved(i) \/ NotLive(env[i].receiver)

C4_AmendedTrackerResolves ==
    /\ [](\A e \in Envelopes :
            /\ sets[e] <= 1
            /\ tracker[e].state \in {"pending", "result", "exception"}
            /\ tracker[e].state = "exception" => tracker[e].value = None)
    /\ \A i \in 1..MaxEnvelopes : [](i \in Envelopes => <>C4_ResolvedOrNotLive(i))

\* C4 witness: a live actor has resolved one tracker with a handler's value and
\* one with the unhandled sentinel.
C4_Witness ==
    \E e1, e2 \in Envelopes :
        /\ ~NotLive(env[e1].receiver)
        /\ tracker[e1].state = "result" /\ tracker[e1].value \in {Data(d) : d \in DataValues}
        /\ tracker[e2].state = "result" /\ tracker[e2].value = UNHANDLED

\* C5: while the receiver lives (initialize returned, stop not requested) every
\* posted envelope is dispatched exactly once: its handler is invoked at most
\* once or it is marked unhandled at most once, never both; no envelope is
\* skipped (an envelope is dispatched only after every envelope posted before
\* it to the same actor); and every envelope is eventually dispatched unless the
\* receiver stops being live.
C5_DispatchedOrNotLive(i) ==
    /\ i \in Envelopes
    /\ Dispatched(i) \/ NotLive(env[i].receiver)

C5_ExactlyOnceWhileLive ==
    /\ [](\A e \in Envelopes :
            /\ calls[e] <= 1
            /\ match(env[e].message) = NoHandler => calls[e] = 0 /\ sets[e] <= 1
            /\ \A e0 \in Envelopes :
                 (e0 < e /\ env[e0].receiver = env[e].receiver /\ Dispatched(e))
                    => Dispatched(e0))
    /\ \A i \in 1..MaxEnvelopes : [](i \in Envelopes => <>C5_DispatchedOrNotLive(i))

\* C5 witness: a live actor has dispatched two envelopes, each once.
C5_Witness ==
    \E e1, e2 \in Envelopes :
        /\ e1 < e2
        /\ env[e1].receiver = env[e2].receiver
        /\ ~NotLive(env[e1].receiver)
        /\ calls[e1] = 1 /\ calls[e2] = 1 /\ Resolved(e2)

\* The serve loop of actor a is inside its while loop.
Serving(a) == pc[a] \in {"waiting", "handler", "rearm"}

\* Envelope j, posted after envelope i to the same actor, has been dispatched,
\* or the stop of that actor has been requested.
LaterDispatchedOrStopped(i, j) ==
    /\ j \in Envelopes
    /\ Dispatched(j) \/ stop_event[env[j].receiver]

\* C6: a handler's exception is stored on the tracker of its envelope only and
\* does not leave the serve loop: the step that stores it changes no other
\* tracker, leaves stop_event, shutdown_event and the mailbox as they were and
\* keeps the loop going; as long as no stop is requested the actor keeps
\* serving with shutdown_event unset; and every envelope posted behind the
\* failing one is still dispatched unless a stop is requested.
C6_StoresException(e) ==
    LET a == env[e].receiver
    IN  (tracker[e].state = "pending" /\ tracker'[e].state = "exception") =>
            /\ pc'[a] = "rearm"
            /\ stop_event'[a] = stop_event[a]
            /\ shutdown_event'[a] = shutdown_event[a]
            /\ task_exception'[a] = task_exception[a]
            /\ queue'[a] = queue[a]
            /\ \A e2 \in Envelopes \ {e} : tracker'[e2] = tracker[e2]

C6_FailedBefore(i, j) ==
    /\ i \in Envelopes /\ j \in Envelopes
    /\ env[i].receiver = env[j].receiver
    /\ tracker[i].state = "exception"

C6_HandlerExceptionIsolated ==
    /\ [][\A e \in Envelopes : C6_StoresException(e)]_vars
    /\ [](\A e \in Envelopes :
            (tracker[e].state = "exception" /\ ~stop_event[env[e].receiver])
                => Serving(env[e].receiver) /\ ~shutdown_event[env[e].receiver])
    /\ \A i, j \in 1..MaxEnvelopes :
            i < j => [](C6_FailedBefore(i, j) => <>LaterDispatchedOrStopped(i, j))

\* C6 witness: a handler raised and an envelope posted behind it was
\* dispatched by the still serving actor.
C6_Witness ==
    \E e1, e2 \in Envelopes :
        /\ e1 < e2
        /\ env[e1].receiver = env[e2].receiver
        /\ tracker[e1].state = "exception"
        /\ Dispatched(e2) /\ Resolved(e2)
        /\ ~stop_event[env[e1].receiver] /\ ~shutdown_event[env[e1].receiver]

\* C7: for a message type without a handler no handler is invoked, the tracker
\* is resolved with the unhandled sentinel (is_handled is false), the step
\* that resolves it keeps the loop going, and the envelopes behind it are
\* still dispatched unless a stop is requested.
C7_MarksUnhandled(e) ==
    LET a == env[e].receiver
    IN  (match(env[e].message) = NoHandler /\ ~Resolved(e) /\ Resolved(e)') =>
            /\ pc'[a] = "rearm"
            /\ stop_event'[a] = stop_event[a]
            /\ shutdown_event'[a] = shutdown_event[a]
            /\ queue'[a] = queue[a]
            /\ calls' = calls

C7_UnhandledBefore(i, j) ==
    /\ i \in Envelopes /\ j \in Envelopes
    /\ env[i].receiver = env[j].receiver
    /\ match(env[i].message) = NoHandler
    /\ Resolved(i)

C7_UnhandledMessage ==
    /\ [](\A e \in Envelopes :
            match(env[e].message) = NoHandler =>
                /\ calls[e] = 0
                /\ Resolved(e) =>
                     /\ tracker[e] = [state |-> "result", value |-> UNHANDLED]
                     /\ ~is_handled(tracker[e]))
    /\ [][\A e \in Envelopes : C7_MarksUnhandled(e)]_vars
    /\ \A i, j \in 1..MaxEnvelopes :
            i < j => [](C7_UnhandledBefore(i, j) => <>LaterDispatchedOrStopped(i, j))

\* C7 witness: an envelope was marked unhandled without a handler call and the
\* envelope behind it was handled.
C7_Witness ==
    \E e1, e2 \in Envelopes :
        /\ e1 < e2
        /\ env[e1].receiver = env[e2].receiver
        /\ tracker[e1] = [state |-> "result", value |-> UNHANDLED]
        /\ calls[e1] = 0
        /\ calls[e2] = 1 /\ Resolved(e2)

\* C8: an ask that has ended ended with the outcome of the single dispatch of
\* its envelope: the handler's value when the handler returned, the exception
\* when it raised, the Unhandled error when no handler exists (and none was
\* called); the sentinel is never returned as a value.
C8_AskEndedAs(e) ==
    LET message == env[e].message
        handler == match(message)
        outcome == HandlerOutcome(handler, message)
    IN  /\ Resolved(e)
        /\ sets[e] = 1
        /\ asker[e].value # UNHANDLED
        /\ IF handler = NoHandler
             THEN asker[e].st = "unhandled" /\ calls[e] = 0
             ELSE /\ calls[e] = 1
                  /\ IF outcome.raises
                       THEN asker[e].st = "raised"
                       ELSE /\ asker[e].st = "returned"
                            /\ asker[e].value = outcome.value

C8_AskOutcome ==
    \A e \in Envelopes :
        asker[e].st \in {"returned", "raised", "unhandled"} => C8_AskEndedAs(e)

\* C8 witness: one ask returned its handler's value and another failed as
\* unhandled.
C8_Witness ==
    \E e1, e2 \in Envelopes :
        /\ asker[e1].st = "returned"
        /\ asker[e1].value \in {Data(d) : d \in DataValues}
        /\ asker[e2].st = "unhandled"

\* C9: initialize_event is set once, exactly when initialize has returned or
\* raised; a call of wait_until_initialized that ends raises if initialize
\* raised and returns if it returned, whether it was made before or after the
\* event was set.
C9_WaitEnds(a) ==
    (wi'[a] # wi[a] /\ wi'[a].st = "idle") =>
        /\ initialize_event[a]
        /\ wi'[a].last = IF initialize_result[a] = "raised"
                            THEN "raised" ELSE "returned"

C9_InitializeEventOnce ==
    /\ [](\A a \in ActorIds :
            /\ init_sets[a] <= 1
            /\ initialize_event[a] <=> init_sets[a] = 1
            /\ initialize_result[a] # "none" <=> init_sets[a] = 1
            /\ pc[a] \notin {"none", "created", "initialize"} => init_sets[a] = 1
            /\ wi[a].last = "raised" => initialize_result[a] = "raised"
            /\ wi[a].last = "returned" => initialize_result[a] = "returned")
    /\ [][\A a \in ActorIds : C9_WaitEnds(a)]_vars

\* C9 witness: initialize raised, the event was set once and a call of
\* wait_until_initialized raised.
C9_Witness ==
    \E a \in ActorIds :
        /\ initialize_result[a] = "raised"
        /\ init_sets[a] = 1
        /\ wi[a] = [st |-> "idle", last |-> "raised"]

\* C10: once the serve task of an actor whose initialize raised has ended, no
\* handler was invoked for any of its envelopes, its shutdown_event is set and
\* it is no longer in the Core registry.
C10_FailedInitializeTerminates ==
    \A a \in ActorIds :
        (initialize_result[a] = "raised" /\ pc[a] \in {"done", "finished"}) =>
            /\ \A e \in Envelopes : env[e].receiver = a => calls[e] = 0
            /\ shutdown_event[a]
            /\ a \notin Keys(core_actors)

\* C11: in every state where the serve task of an actor has ended, the Core
\* registry holds no entry for that actor, however the actor was stopped.
C11_AbsentAfterServeExit ==
    \A a \in ActorIds :
        pc[a] \in {"done", "finished"} => a \notin Keys(core_actors)

\* The serve task of a is suspended in the handler of a ShutdownMessage.
InHandleShutdown(a) ==
    /\ pc[a] = "handler"
    /\ env[current[a]].message = ShutdownMessage

\* C12: the built-in ShutdownMessage handler cancels every actlet that is in
\* the actlets map when it is called (each is gathered, each gathered cancel
\* leaves its actlet not running, and the handler returns only when all have
\* run); the actor then reaches is_shutdown() = true; and a ShutdownMessage
\* sent afterwards runs no handler and changes neither the actor's lifecycle
\* state, its actlets, nor the registry.
C12_GathersAndCancels(a) ==
    /\ (~InHandleShutdown(a) /\ InHandleShutdown(a)') =>
            cancels'[a] = values(actlets[a])
    /\ \A i \in cancels[a] :
            i \notin cancels'[a] => actlet'[i].state # "running"
    /\ (InHandleShutdown(a) /\ ~InHandleShutdown(a)') =>
            /\ cancels[a] = {}
            /\ stop_event'[a]

C12_SentAgain(a) ==
    (Len(env') > Len(env) /\ shutdown_event[a]
        /\ env'[Len(env')] = NewEnvelope(Len(env'), env'[Len(env')].sender, a,
                                         ShutdownMessage)) =>
        /\ UNCHANGED << core_vars, pc, event_vars, waiters, current, running,
                        actlets, actlet, cancels >>
        /\ \A e \in Envelopes : calls'[e] = calls[e] /\ tracker'[e] = tracker[e]

CreateActorCalled(a) ==
    /\ call'.op = "create_actor" /\ call'.a = a
    /\ call' # call \/ Len(core_actors') > Len(core_actors)

\* C13: an id is registered at most once; while an id is registered no actor is
\* constructed for it; and a create_actor for a registered id raises
\* RuntimeError (the duplicate-id error while the Core runs) and changes
\* nothing, so of several calls for one id only the first succeeds.
C13_DuplicateFails(a) ==
    (CreateActorCalled(a) /\ a \in Keys(core_actors)) =>
        /\ call'.raised \in {DuplicateId, NotRunning}
        /\ core_running => call'.raised = DuplicateId
        /\ UNCHANGED << core_vars, pc, queue, unfinished_tasks, event_vars,
                        waiters, current, post_vars, running, actlet_vars >>

C13_UniqueActorId ==
    /\ [](\A i, j \in DOMAIN core_actors :
            core_actors[i] = core_actors[j] => i = j)
    /\ [][\A a \in ActorIds :
            /\ C13_DuplicateFails(a)
            /\ (a \in Keys(core_actors) /\ pc'[a] = "created") => pc[a] = "created"
            /\ (CreateActorCalled(a) /\ call'.raised = "none") =>
                    /\ a \notin Keys(core_actors)
                    /\ core_actors' = Append(core_actors, a)]_vars

\* C13 witness: a create_actor for the id of a registered, running actor has
\* failed as a duplicate.
C13_Witness ==
    \E a \in ActorIds :
        /\ call = Call("create_actor", a, "", DuplicateId)
        /\ a \in Keys(core_actors)
        /\ pc[a] = "waiting"

\* C14: once running is false it stays false, and every create_actor called
\* while it is false - during the wait of shutdown() and after its return -
\* raises the not-running RuntimeError and registers and starts nothing; a
\* create_actor succeeds only in a state where running is true.
C14_CreateAfterShutdown(a) ==
    /\ (CreateActorCalled(a) /\ ~core_running) =>
            /\ call'.raised = NotRunning
            /\ UNCHANGED << core_vars, pc, queue, unfinished_tasks, event_vars,
                            waiters, current, post_vars, running, actlet_vars >>
    /\ (CreateActorCalled(a) /\ call'.raised = "none") => core_running

C14_NotRunningAfterShutdown ==
    /\ [][~core_running => ~core_running']_vars
    /\ [][\A a \in ActorIds : C14_CreateAfterShutdown(a)]_vars

\* C14 witness: a create_actor failed as not running while shutdown() was
\* still waiting for an actor to stop.
C14_Witness ==
    \E a \in ActorIds :
        /\ call = Call("create_actor", a, "", NotRunning)
        /\ ~core_running
        /\ core_pc = "waiting"
        /\ ~shutdown_event[a]

\* C15: Core.shutdown tells a ShutdownMessage to every registered actor, in
\* one step with clearing running; it returns only when each of them has
\* set its shutdown_event; and it does return.
C15_Begins ==
    (core_pc = "idle" /\ core_pc' = "waiting") =>
        /\ ~core_running'
        /\ core_proxies' = Keys(core_actors)
        /\ Len(env') = Len(env) + Len(core_actors)
        /\ \A k \in 1..Len(core_actors) :
              /\ env'[Len(env) + k] =
                    NewEnvelope(Len(env) + k, CORE_IDENTITY, core_actors[k],
                                ShutdownMessage)
              /\ Len(env) + k \in Keys(queue'[core_actors[k]])

C15_Returns ==
    (core_pc = "waiting" /\ core_pc' = "idle") =>
        \A a \in core_proxies : shutdown_event[a] /\ shutdown_event'[a]

RemoveActorCalled ==
    /\ call'.op = "remove_actor"
    /\ call' # call

\* C16 as claimed, seen in the outcome of the calls: remove_actor ends either
\* silently or with ValueError, and silently for an id that is never
\* registered.
C16_Original ==
    call.op = "remove_actor" =>
        /\ call.raised \in {"none", "ValueError"}
        /\ call.a \notin ActorIds => call.raised = "none"

\* C16 amended: an entry leaves the registry only when the shutdown_event of
\* its actor is set.  While the Core is running, remove_actor for a
\* registered actor that is not shut down raises ValueError and for an
\* unregistered id returns silently; once the Core is not running it raises
\* RuntimeError for every id.  In each of these cases the registry is
\* unchanged.
C16_RemoveCall ==
    RemoveActorCalled =>
        LET actor_id == call'.a
            registered == actor_id \in Keys(core_actors)
            is_shutdown == actor_id \in ActorIds /\ shutdown_event[actor_id]
        IN  /\ ~core_running =>
                call'.raised = "RuntimeError" /\ core_actors' = core_actors
            /\ (core_running /\ ~registered) =>
                call'.raised = "none" /\ core_actors' = core_actors
            /\ (core_running /\ registered /\ ~is_shutdown) =>
                call'.raised = "ValueError" /\ core_actors' = core_actors

C16_AmendedRemoveActor ==
    /\ [][RemoveActorCalled => C16_RemoveCall]_vars
    /\ [][\A a \in ActorIds :
            (a \in Keys(core_actors) /\ a \notin Keys(core_actors')) =>
                shutdown_event'[a]]_vars

\* C16 witness: remove_actor for a registered, live actor raised ValueError
\* and the actor is still registered.
C16_Witness ==
    \E a \in ActorIds :
        /\ call = Call("remove_actor", a, "", "ValueError")
        /\ a \in Keys(core_actors)
        /\ ~shutdown_event[a]
        /\ core_running

\* A path string in the form pathlib prints it, other than ".".
NormalPath(s) ==
    /\ parse_root(s) # "" \/ parse_parts(s, "") # << >>
    /\ s = format_path(parse_root(s), parse_parts(s, ""))

\* The id the claim gives: the actor_id itself when it starts with "/",
\* else the identity, a "/" (unless the identity is the root) and the actor_id.
C17_ClaimedId(base, actor_id) ==
    IF Len(actor_id) >= 1 /\ SubSeq(actor_id, 1, 1) = "/" THEN actor_id
    ELSE IF base = "/" THEN base \o actor_id
    ELSE base \o "/" \o actor_id

\* C17 as claimed: for every identity and every actor_id the computed id is
\* the claimed one.
C17_Original ==
    call.op = "_generate_actor_id" => call.value = C17_ClaimedId(call.a, call.b)

\* C17 amended: the computed id is the claimed one when the actor_id is in
\* normal form (no empty or "." part, no trailing slash) and, for a relative
\* actor_id, the identity is in normal form too; for every non-empty identity
\* the id is the normal form of the claimed one.
C17_AmendedFullId ==
    call.op = "_generate_actor_id" =>
        /\ (/\ NormalPath(call.b)
            /\ parse_root(call.b) # "" \/ NormalPath(call.a)) =>
                call.value = C17_ClaimedId(call.a, call.b)
        /\ call.a # "" =>
                call.value = LET claimed == C17_ClaimedId(call.a, call.b)
                             IN  format_path(parse_root(claimed),
                                             parse_parts(claimed, ""))
        /\ (call.a = "/" /\ call.b = "actor") => call.value = "/actor"
        /\ (call.a = "/actor" /\ call.b = "actor") => call.value = "/actor/actor"

\* C17 witness: an absolute actor_id replaced the identity of the caller.
C17_Witness ==
    call = Returned("_generate_actor_id", "/actor", "/abs/actor", "/abs/actor")

\* Envelope e carries an ActletDoneMessage.
DoneEnvelope(e) == env[e].message.type = "ActletDoneMessage"

\* The ActletDoneMessage envelopes sent under the qualified name q, and the
\* actlets of that name whose function has returned.
DoneEnvelopesFrom(q) == {e \in Envelopes : DoneEnvelope(e) /\ env[e].sender = q}
ReturnedActlets(q) ==
    {i \in 1..Len(actlet) : actlet[i].name = q /\ actlet[i].state = "returned"}

\* C18 as claimed: the ActletDoneMessage of every actlet that returned is
\* eventually handled by the owner.
C18_Original ==
    \A i \in 1..MaxEnvelopes :
        []((i \in Envelopes /\ DoneEnvelope(i)) =>
                <>(i \in Envelopes /\ calls[i] = 1 /\ Resolved(i)))

\* C18 amended: an actlet whose function returns sends exactly one
\* ActletDoneMessage to its owner, under its qualified name; the owner handles
\* it at most once, and eventually does unless its initialize raised or its
\* stop has been requested; the step that ends the handling leaves the name out
\* of the actlet map and, if the result is a Message, has put it as a new
\* envelope from the actor to itself at the end of its mailbox, so that its
\* handler runs after the removal.
C18_HandledOrNotLive(i) ==
    /\ i \in Envelopes
    /\ (calls[i] = 1 /\ Resolved(i)) \/ NotLive(env[i].receiver)

C18_Handling(a) ==
    LET e == received(a)
        v == env[e].message.data
        new == Len(env) + 1
    IN  (e \in Envelopes /\ DoneEnvelope(e) /\ calls'[e] # calls[e]) =>
            /\ actlets'[a][env[e].sender] = 0
            /\ running' = running
            /\ tracker'[e].state # "pending"
            /\ IF v # ""
                 THEN /\ env' = Append(env, NewEnvelope(new, a, a, DataMessage(v)))
                      /\ queue'[a] = Append(queue[a], new)
                      /\ calls'[new] = 0
                 ELSE env' = env /\ queue' = queue

C18_AmendedActletDone ==
    /\ [](\A a \in ActorIds : \A q \in QualifiedNames(a) :
            /\ Cardinality(DoneEnvelopesFrom(q)) = Cardinality(ReturnedActlets(q))
            /\ \A e \in DoneEnvelopesFrom(q) : env[e].receiver = a /\ calls[e] <= 1)
    /\ [](\A e2 \in Envelopes :
            env[e2].sender = env[e2].receiver =>
                \E e1 \in Envelopes :
                    /\ e1 < e2 /\ DoneEnvelope(e1) /\ Resolved(e1)
                    /\ env[e1].receiver = env[e2].receiver
                    /\ env[e2].message = DataMessage(env[e1].message.data))
    /\ [][\A a \in ActorIds : C18_Handling(a)]_vars
    /\ \A i \in 1..MaxEnvelopes :
            []((i \in Envelopes /\ DoneEnvelope(i)) => <>C18_HandledOrNotLive(i))

\* C18 witness: a live actor has handled the ActletDoneMessage of an actlet
\* that returned a Message, the name is out of the map, and the handler of the
\* returned Message has run.
C18_Witness ==
    \E a \in ActorIds :
        /\ ~NotLive(a)
        /\ Len(env) = 2 /\ DoneEnvelope(1) /\ env[1].message.data = "x"
        /\ calls[1] = 1 /\ tracker[1].state = "result"
        /\ actlets[a][env[1].sender] = 0
        /\ env[2] = NewEnvelope(2, a, a, DataMessage("x"))
        /\ calls[2] = 1 /\ tracker[2].state = "result"

\* The function of actlet i raises in this step.
ActletRaises(i) ==
    /\ i \in 1..Len(actlet)
    /\ actlet[i].state = "running" /\ actlet'[i].state = "raised"

\* C19: the step in which an actlet's function raises sends nothing (no
\* envelope is created, no mailbox changes), and the map entry of an actlet
\* whose function raised leaves the map only in a step that is a successful
\* cancel_actlet of its name.
C19_RaisedActletStays ==
    /\ [][\A i \in 1..MaxActlets :
            ActletRaises(i) => env' = env /\ queue' = queue]_vars
    /\ [][\A a \in ActorIds : \A q \in QualifiedNames(a) :
            LET i == actlets[a][q]
            IN  (i # 0 /\ actlet[i].state = "raised" /\ actlets'[a][q] # i) =>
                    /\ call'.op = "cancel_actlet" /\ call'.raised = "none"
                    /\ generate_actlet_name(call'.a, call'.b) = q]_vars

\* The step is a call of create_actlet.
CreateActletCalled == call'.op = "create_actlet" /\ call' # call

\* C20: a create_actlet for a name whose qualified name is in the map raises
\* RuntimeError; every create_actlet that raises constructs no actlet (no task)
\* and leaves the map, the envelopes and the mailboxes as they were; and one
\* that does not raise was called with a name that was not in the map and a
\* coroutine function of the expected signature, and constructs one actlet.
C20_CreateActletFails ==
    [][CreateActletCalled =>
        LET a == call'.a
            q == generate_actlet_name(a, call'.b)
        IN  /\ actlets[a][q] # 0 => call'.raised = "RuntimeError"
            /\ call'.raised # "none" =>
                    UNCHANGED << actlets, actlet, env, queue >>
            /\ call'.raised = "none" =>
                    /\ actlets[a][q] = 0
                    /\ Len(actlet') = Len(actlet) + 1
                    /\ actlet'[Len(actlet')].entry_point = "coroutine"
                    /\ actlet'[Len(actlet')].name = q
                    /\ actlets' = [actlets EXCEPT ![a][q] = Len(actlet')]]_vars

\* C20 witness: a second create_actlet of a name failed while the first actlet
\* of that name is still running and still the one in the map.
C20_Witness ==
    /\ call = Call("create_actlet", "/a", "n", "RuntimeError")
    /\ Len(actlet) = 1 /\ actlet[1].state = "running"
    /\ actlets["/a"][generate_actlet_name("/a", "n")] = 1

\* Envelope e carries a TimerDoneMessage.
TimerDoneEnvelope(e) == env[e].message = TimerDoneMessage

\* The step is a cancel_actlet (or cancel_timer) call that returned.
CancelActletReturned == 
    /\ call'.op = "cancel_actlet" /\ call' # call /\ call'.raised = "none"

\* C21: when cancel_actlet / cancel_timer returns the qualified name is out of
\* the owner's actlets map, and only a create_actlet puts a name into the map;
\* the step that cancels an actlet or timer that has not returned posts
\* nothing, a cancelled one stays cancelled, and in no state is there an
\* ActletDoneMessage from it, nor more TimerDoneMessages for its owner than
\* timers of that owner that returned.
C21_NameRemoved ==
    /\ CancelActletReturned =>
            actlets'[call'.a][generate_actlet_name(call'.a, call'.b)] = 0
    /\ \A a \in ActorIds : \A q \in QualifiedNames(a) :
            (actlets[a][q] = 0 /\ actlets'[a][q] # 0) =>
                call'.op = "create_actlet" /\ call' # call

C21_NoCompletion(i) ==
    i \in 1..Len(actlet) =>
        /\ (actlet[i].state = "running" /\ actlet'[i].state = "cancelled") =>
                env' = env /\ queue' = queue
        /\ actlet[i].state = "cancelled" => actlet'[i] = actlet[i]

C21_CancelledEmitsNothing ==
    /\ [][C21_NameRemoved /\ \A i \in 1..MaxActlets : C21_NoCompletion(i)]_vars
    /\ [](\A i \in 1..Len(actlet) :
            actlet[i].state = "cancelled" =>
                /\ DoneEnvelopesFrom(actlet[i].name) = {}
                /\ Cardinality({e \in Envelopes :
                        TimerDoneEnvelope(e) /\ env[e].receiver = actlet[i].owner})
                    <= Cardinality({j \in 1..Len(actlet) :
                            /\ actlet[j].owner = actlet[i].owner
                            /\ actlet[j].state = "returned"}))

\* C21 witness: cancel_timer returned for a timer that had told its message
\* once and was sleeping; the name is out of the map of the live owner, which
\* has handled the message.
C21_Witness ==
    /\ call = Call("cancel_actlet", "/a", generate_timer_name("t"), "none")
    /\ ~NotLive("/a")
    /\ Len(actlet) = 1 /\ actlet[1].state = "cancelled"
    /\ actlet[1].at = "interval" /\ actlet[1].sent = 1
    /\ actlets["/a"][actlet[1].name] = 0
    /\ Len(env) = 1 /\ env[1].message = SomeMessage /\ calls[1] = 1

\* Actlet i is a timer whose message can be copied and whose interval is a
\* number: no tell and no sleep of it raises.
SoundTimer(i) ==
    /\ i \in 1..Len(actlet)
    /\ actlet[i].entry_point = "_generic_timer"
    /\ actlet[i].configuration.message = "SomeMessage"
    /\ actlet[i].configuration.interval = "number"

\* The envelopes in which timer i told its message, and the TimerDoneMessage
\* envelopes of its owner (a run has one timer per name and one timer name).
PayloadEnvelopes(i) ==
    {e \in Envelopes : env[e].sender = actlet[i].name /\ env[e].message = SomeMessage}
TimerDoneEnvelopes(a) ==
    {e \in Envelopes : TimerDoneEnvelope(e) /\ env[e].receiver = a}

\* The owner of timer i has handled a TimerDoneMessage.
TimerDoneHandled(i) ==
    /\ i \in 1..Len(actlet)
    /\ \E e \in TimerDoneEnvelopes(actlet[i].owner) : calls[e] = 1 /\ Resolved(e)

\* C22 as claimed: the owner of every timer that told its message k times and
\* returned eventually handles the TimerDoneMessage.
C22_Original ==
    \A i \in 1..MaxActlets :
        []((SoundTimer(i) /\ actlet[i].configuration.repetitions > 0
                /\ actlet[i].state = "returned") => <>TimerDoneHandled(i))

\* C22 amended: a timer with repetitions = k > 0 whose tells and sleeps do not
\* raise never tells its message more than k times, for now = true and false
\* alike, and has told it exactly k times when it returns; returning, it sends
\* one ActletDoneMessage, from which the owner gets at most one
\* TimerDoneMessage, posted after all k messages and handled after all of
\* them, and when it is handled the timer's name is out of the actlets map;
\* the owner eventually handles it unless its initialize raised or its stop
\* has been requested.
C22_HandledOrNotLive(i) ==
    /\ i \in 1..Len(actlet)
    /\ TimerDoneHandled(i) \/ NotLive(actlet[i].owner)

C22_Counts(i) ==
    LET k == actlet[i].configuration.repetitions
        a == actlet[i].owner
    IN  (SoundTimer(i) /\ k > 0) =>
            /\ actlet[i].sent <= k
            /\ Cardinality(PayloadEnvelopes(i)) = actlet[i].sent
            /\ actlet[i].state = "returned" <=>
                    Cardinality(DoneEnvelopesFrom(actlet[i].name)) = 1
            /\ actlet[i].state = "returned" => actlet[i].sent = k
            /\ Cardinality(TimerDoneEnvelopes(a)) <= 1
            /\ \A e \in TimerDoneEnvelopes(a) :
                    /\ actlet[i].state = "returned"
                    /\ \A p \in PayloadEnvelopes(i) : p < e
                    /\ calls[e] = 1 =>
                        /\ \A p \in PayloadEnvelopes(i) : Dispatched(p)
                        /\ actlets[a][actlet[i].name] = 0

C22_AmendedTimerRepetitions ==
    /\ [](\A i \in 1..Len(actlet) : C22_Counts(i))
    /\ \A i \in 1..MaxActlets :
        []((SoundTimer(i) /\ actlet[i].configuration.repetitions > 0
                /\ actlet[i].state = "returned") => <>C22_HandledOrNotLive(i))

\* C22 witness: a timer with now = true and repetitions = 2 has told its
\* message twice and returned, and the live owner has handled both messages,
\* then the ActletDoneMessage, then the TimerDoneMessage; the name is out of
\* the map.
C22_Witness ==
    /\ Len(actlet) = 1 /\ SoundTimer(1) /\ actlet[1].state = "returned"
    /\ actlet[1].configuration.now /\ actlet[1].configuration.repetitions = 2
    /\ actlet[1].sent = 2
    /\ ~NotLive("/a")
    /\ Len(env) = 4 /\ calls = << 1, 1, 1, 1 >>
    /\ TimerDoneEnvelope(4)
    /\ actlets["/a"][actlet[1].name] = 0

\* Timer i was created with repetitions = 0 and none of its tells and sleeps
\* raises.
UnboundedTimer(i) == SoundTimer(i) /\ actlet[i].configuration.repetitions = 0

\* C23: a timer with repetitions = 0 whose tells and sleeps do not raise, with
\* now = true or false, never returns: it sends no ActletDoneMessage and its
\* owner gets no TimerDoneMessage; started, it has told the message once if
\* now is true and sleeps; and every time a sleep of it ends it tells the
\* message once more and sleeps again, unless it was cancelled.
C23_NeverReturns(i) ==
    UnboundedTimer(i) =>
        /\ actlet[i].state \in {"running", "cancelled"}
        /\ DoneEnvelopesFrom(actlet[i].name) = {}
        /\ TimerDoneEnvelopes(actlet[i].owner) = {}
        /\ Cardinality(PayloadEnvelopes(i)) = actlet[i].sent
        /\ actlet[i].at = "interval" => actlet[i].repetitions = float_inf

C23_KeepsSending(i) ==
    (UnboundedTimer(i) /\ actlet'[i] # actlet[i]
            /\ actlet'[i].state = "running") =>
        /\ actlet'[i].at \in {"delay", "interval"}
        /\ actlet[i].at = "interval" =>
                actlet'[i].at = "interval" /\ actlet'[i].sent = actlet[i].sent + 1
        /\ (actlet'[i].at = "interval" /\ actlet[i].at # "interval") =>
                actlet'[i].sent = IF actlet[i].configuration.now THEN 1 ELSE 0

C23_UnboundedTimer ==
    /\ [](\A i \in 1..Len(actlet) : C23_NeverReturns(i))
    /\ [][\A i \in 1..Len(actlet) : C23_KeepsSending(i)]_vars

\* C23 witness: a timer with repetitions = 0 and now = false has told its
\* message three times and sleeps again.
C23_Witness ==
    /\ Len(actlet) = 1 /\ UnboundedTimer(1) /\ ~actlet[1].configuration.now
    /\ actlet[1].state = "running" /\ actlet[1].at = "interval"
    /\ actlet[1].sent = 3 /\ Len(env) = 3

\* Timer i hits an exception: its message cannot be copied (the first tell
\* raises) or its interval is a string (the first sleep raises).
FaultyTimer(i) ==
    /\ i \in 1..Len(actlet)
    /\ actlet[i].entry_point = "_generic_timer"
    /\ \/ actlet[i].configuration.message # "SomeMessage"
       \/ actlet[i].configuration.interval # "number"

\* The number of messages timer i tells before it hits its exception.
SentBeforeException(i) ==
    IF actlet[i].configuration.message # "SomeMessage" THEN 0
    ELSE IF actlet[i].configuration.now THEN 1 ELSE 0

\* C24 as claimed: the owner of every timer that hit an exception eventually
\* handles the TimerDoneMessage.
C24_Original ==
    \A i \in 1..MaxActlets :
        []((FaultyTimer(i) /\ actlet[i].state = "returned")
                => <>TimerDoneHandled(i))

\* C24 amended: a timer that hits an exception in a tell or a sleep returns in
\* that step, having told its message only before the exception, and tells
\* nothing afterwards; returning, it sends one ActletDoneMessage, from which
\* the owner gets at most one TimerDoneMessage, and when that is handled the
\* timer's name is out of the actlets map; the owner eventually handles it
\* unless its initialize raised or its stop has been requested; and a timer
\* that was cancelled has sent no ActletDoneMessage and its owner has no
\* TimerDoneMessage.
C24_HandledOrNotLive(i) ==
    /\ i \in 1..Len(actlet)
    /\ TimerDoneHandled(i) \/ NotLive(actlet[i].owner)

C24_Completes(i) ==
    LET a == actlet[i].owner
    IN  /\ FaultyTimer(i) =>
            /\ actlet[i].sent <= SentBeforeException(i)
            /\ Cardinality(PayloadEnvelopes(i)) = actlet[i].sent
            /\ actlet[i].state = "returned" =>
                    /\ actlet[i].sent = SentBeforeException(i)
                    /\ Cardinality(DoneEnvelopesFrom(actlet[i].name)) = 1
            /\ Cardinality(TimerDoneEnvelopes(a)) <= 1
            /\ \A e \in TimerDoneEnvelopes(a) :
                    /\ actlet[i].state = "returned"
                    /\ \A p \in PayloadEnvelopes(i) : p < e
                    /\ calls[e] = 1 => actlets[a][actlet[i].name] = 0
        /\ (actlet[i].entry_point = "_generic_timer"
                /\ actlet[i].state = "cancelled") =>
            /\ DoneEnvelopesFrom(actlet[i].name) = {}
            /\ TimerDoneEnvelopes(a) = {}

C24_AmendedTimerException ==
    /\ [](\A i \in 1..Len(actlet) : C24_Completes(i))
    /\ [][\A i \in 1..Len(actlet) :
            (FaultyTimer(i) /\ actlet[i].state # "running") =>
                actlet'[i] = actlet[i]]_vars
    /\ \A i \in 1..MaxActlets :
        []((FaultyTimer(i) /\ actlet[i].state = "returned")
                => <>C24_HandledOrNotLive(i))

\* C24 witness (test_exception_timer): a timer with now = true and a string
\* interval told its message once, hit the TypeError of the sleep and
\* returned; the live owner has handled the message, the ActletDoneMessage and
\* the TimerDoneMessage, and the name is out of the map.
C24_Witness ==
    /\ Len(actlet) = 1 /\ FaultyTimer(1) /\ actlet[1].state = "returned"
    /\ actlet[1].configuration.interval = "string" /\ actlet[1].configuration.now
    /\ actlet[1].sent = 1
    /\ ~NotLive("/a")
    /\ Len(env) = 3 /\ calls = << 1, 1, 1 >>
    /\ TimerDoneEnvelope(3)
    /\ actlets["/a"][actlet[1].name] = 0

\* ---------------------------------------------------------------------- C25
\* The envelopes the receivers hold: queued, or given to a running handler.
HeldEntries ==
    UNION {{mailbox[r][i] : i \in 1..Len(mailbox[r])} : r \in Receivers}
    \cup UNION {{handling[r][i] : i \in 1..Len(handling[r])} : r \in Receivers}

HeldEnvelopes == {entry.envelope : entry \in HeldEntries}

\* The objects the sender can reach from its envelopes and messages.
SenderObjects ==
    UNION {Reachable(heap, o) : o \in sender_envelopes \cup sender_messages}

\* No object of a held envelope is an object of the sender's envelopes or
\* messages, or of another held envelope.
C25_NoSharedState ==
    \A e \in HeldEnvelopes :
        /\ Reachable(heap, e) \cap SenderObjects = {}
        /\ \A other \in HeldEnvelopes \ {e} :
              Reachable(heap, e) \cap Reachable(heap, other) = {}

\* A queued envelope still holds the value the message had when it was posted.
C25_QueuedAsSent ==
    \A r \in Receivers : \A i \in 1..Len(mailbox[r]) :
        ValueOf(heap, mailbox[r][i].envelope) = mailbox[r][i].sent

\* A change the sender makes to a message changes no held envelope.
C25_SenderChange ==
    (\E message \in sender_messages, value \in Payloads :
        sender_mutates(message, value))
    => \A e \in HeldEnvelopes : ValueOf(heap', e) = ValueOf(heap, e)

\* A change a handler makes to its message changes no message of the sender
\* and no envelope held for another invocation.
C25_HandlerChange ==
    \A r \in Receivers :
        (\E value \in Payloads : handler_mutates(r, value))
        => /\ \A message \in sender_messages :
                 ValueOf(heap', message) = ValueOf(heap, message)
           /\ \A e \in HeldEnvelopes \ {handling[r][1].envelope} :
                 ValueOf(heap', e) = ValueOf(heap, e)

\* C25: after Proxy.tell / Actor.post returns, the envelope in the receiver's
\* queue shares no object with the sender's envelope or message or with the
\* envelope of another post; what the sender changes afterwards is not seen
\* through a held envelope, and what a handler changes is seen neither by the
\* sender nor through the envelope of another actor.
C25_DeepCopied ==
    /\ [](C25_NoSharedState /\ C25_QueuedAsSent)
    /\ [][C25_SenderChange /\ C25_HandlerChange]_vars

\* One message told to both receivers while it held "a": the sender changed it
\* to "b", the handler of /r1 changed its copy to "c", /r2's is still queued.
C25_Witness ==
    /\ \E message \in sender_messages :
          sender_messages = {message} /\ ValueOf(heap, message) = "b"
    /\ handling["/r1"] # << >>
    /\ handling["/r1"][1].sent = "a"
    /\ ValueOf(heap, handling["/r1"][1].envelope) = "c"
    /\ mailbox["/r2"] # << >>
    /\ mailbox["/r2"][1].sent = "a"
    /\ ValueOf(heap, mailbox["/r2"][1].envelope) = "a"

\* ---------------------------------------------------------------------- C27
\* The parameter names are exactly (self, context, message).
exactly_the_signature(parameters) == parameters = MESSAGE_HANDLER_SIGNATURE

\* What an add call does, given what counts as the right parameter names: it
\* fails and leaves both maps as they were in the four cases, and otherwise
\* returns with one more entry in each map.
C27_AddContract(right_parameters(_)) ==
    \A message_cls \in MessageClasses, func \in Functions :
        router_add_call(message_cls, func) =>
            IF \/ ~message_cls.message
               \/ ~right_parameters(func.parameters)
               \/ ~func.coroutine
               \/ message_cls.name \in handled_messages_names(router)
                THEN call'.raised = "RuntimeError" /\ router' = router
                ELSE /\ call'.raised = "none"
                     /\ Len(router'.handlers) = Len(router.handlers) + 1
                     /\ Len(router'.names) = Len(router.names) + 1
                     /\ handlers_get(router', message_cls) = func

\* C27: Router.add(message_type, handler) fails with RuntimeError and leaves
\* both maps unchanged when the type is not a Message subtype, the handler's
\* parameter names are not exactly (self, context, message), the handler is
\* not async, or a type of the same simple name is registered; otherwise it
\* adds exactly one entry to the handlers map and one to the name map.
C27_Original == [][C27_AddContract(exactly_the_signature)]_vars

\* The same with the parameter names compared as a set, as the code does.
C27_NamesAsSet == [][C27_AddContract(same_parameters)]_vars

\* ---------------------------------------------------------------------- C26
\* The message classes class c declares a handler for, and those the routers
\* of its bases bind.
OwnTypes(c) == {c.dct[i].handle : i \in DOMAIN c.dct}
RoutedBases(c) == {i \in DOMAIN c.bases : c.bases[i] \in defined_names(classes)}
BaseRouter(c, i) == class_named(classes, c.bases[i]).router
BaseTypes(c) == UNION {handled_classes(BaseRouter(c, i)) : i \in RoutedBases(c)}

\* The first base of c, in declaration order, whose router binds T.
FirstBinding(c, T) ==
    CHOOSE i \in RoutedBases(c) :
        /\ T \in handled_classes(BaseRouter(c, i))
        /\ \A j \in RoutedBases(c) :
              j < i => T \notin handled_classes(BaseRouter(c, j))

\* C26: the router of every class made by the metaclass maps each message
\* type the class declares a handler for to the class's own handler, each
\* type bound only in base routers to the handler of the first base in
\* declaration order that binds it, and its keys are exactly the declared
\* types and the bases' types.
C26_RouterInheritance ==
    \A n \in DOMAIN classes :
        LET c == classes[n]
        IN  /\ \A i \in DOMAIN c.dct :
                  handlers_get(c.router, c.dct[i].handle) = c.dct[i].func
            /\ \A T \in BaseTypes(c) \ OwnTypes(c) :
                  handlers_get(c.router, T) =
                      handlers_get(BaseRouter(c, FirstBinding(c, T)), T)
            /\ handled_classes(c.router) = OwnTypes(c) \cup BaseTypes(c)

\* class C(B1, B2) where B1 and B2 each declare a handler for SomeMessage and
\* C declares one for ShutdownMessage, which Actor handles too.
C26_Witness ==
    /\ Len(classes) = Len(ClassNames)
    /\ classes[Len(classes)].bases = << "B1", "B2" >>
    /\ SomeMessageClass \in OwnTypes(class_named(classes, "B1"))
    /\ SomeMessageClass \in OwnTypes(class_named(classes, "B2"))
    /\ OwnTypes(classes[Len(classes)]) = {ShutdownMessageClass}
    /\ handlers_get(classes[Len(classes)].router, SomeMessageClass).name = "B1.handler"
    /\ handlers_get(classes[Len(classes)].router, ShutdownMessageClass).name = "C.handler"

\* ---------------------------------------------------------------------- C28
\* The worker has ended and the event loop has called its done callback.
WorkerEnded == service.pc = "ended" /\ service.callback_ran

\* teardown is called at most once, only after setup returned, and once the
\* worker has ended it was called if setup returned.
C28_TeardownOnce ==
    /\ service.teardown_calls <= 1
    /\ service.teardown_calls = 1 => service.setup_called
    /\ service.pc = "ended" => (service.teardown_calls = 1 <=> service.setup_called)

\* ready_event is set when setup has returned, so before serve is entered.
C28_ReadyBeforeServe ==
    (service.setup_called \/ service.pc \in {"serve", "teardown"})
        => service.ready_event

\* C28: for every run of the Service worker, teardown is called exactly once
\* if and only if setup returned without raising (also when serve raises or
\* is cancelled); ready_event is set after a successful setup and before
\* serve is entered; and once the worker has ended on any path, stop_event
\* and done_event are both set.
C28_Original ==
    /\ C28_TeardownOnce
    /\ C28_ReadyBeforeServe
    /\ WorkerEnded => service.stop_event /\ service.done_event

\* The same for workers that do not end cancelled.
C28_UnlessCancelled ==
    /\ C28_TeardownOnce
    /\ C28_ReadyBeforeServe
    /\ (WorkerEnded /\ service.task # "cancelled")
          => service.stop_event /\ service.done_event

\* ---------------------------------------------------------------------- C29
\* A call of wait_ready ends in this step.
WaitReadyEnds ==
    /\ wait_ready_call \/ wait_ready_resume
    /\ wait_ready_caller'.st = "idle"

\* A waiting caller can go on once the worker has passed setup or has ended.
C29_NotBlocked ==
    (wait_ready_caller.st = "waiting" /\ (service.setup_called \/ WorkerEnded))
        => service.ready_event

\* A call on a started service raises the startup failure only if setup
\* failed, and returns when setup succeeded.
C29_Outcome ==
    (WaitReadyEnds /\ service.task # "none") =>
        /\ wait_ready_caller'.last = "ServiceStartupException"
              => ~service.setup_called /\ service.task = "raised"
        /\ service.setup_called => wait_ready_caller'.last = "returned"

\* C29: wait_ready() on a started service never blocks forever once the
\* worker has passed setup or ended, and it raises the startup failure only
\* if the worker failed during setup: when setup succeeded it returns
\* normally, also when it is called after serve has raised or the worker has
\* ended.
C29_Original == []C29_NotBlocked /\ [][C29_Outcome]_vars

\* The same for workers whose serve and teardown do not raise and whose task
\* is not cancelled.
C29_UnlessFailedLater ==
    [][(service.task \in {"pending", "returned"} \/ ~service.setup_called)
          /\ service.task # "cancelled" => C29_Outcome]_vars

\* ---------------------------------------------------------------------- C30
\* A step of a wait_first() call: its start, the end of its gather, or its
\* return from asyncio.wait.
WaitFirstStep ==
    \/ MultiWaiter_call("wait_first", FALSE, {})
    \/ waiter_caller.op = "wait_first" /\ MultiWaiter_gathered
    \/ waiter_caller.op = "wait_first" /\ MultiWaiter_wait_returns

\* The tasks that have been started and have not ended.
Running(m) == {o \in current_tasks(m) : m.ops[o].state \in {"created", "pending"}}

\* The keys whose current operation has terminated.
Terminated(m) ==
    {m.objects[i].key : i \in {j \in DOMAIN m.objects :
        m.objects[j].waiter # NoTask /\ m.ops[m.objects[j].waiter].state = "done"}}

\* When wait_first has passed _run_waiters (it waits or has returned), every
\* registered key has a task that runs or has terminated, entered in _tasks.
C30_Starts ==
    (WaitFirstStep /\ waiter_caller'.pc \in {"waiting", "idle"}
                   /\ waiter_caller'.raised = "none")
    => /\ \A i \in DOMAIN multi_waiter'.objects :
             /\ multi_waiter'.objects[i].waiter # NoTask
             /\ multi_waiter'.ops[multi_waiter'.objects[i].waiter].state
                    \in {"created", "pending", "done"}
             /\ multi_waiter'.ops[multi_waiter'.objects[i].waiter].key
                    = multi_waiter'.objects[i].key
       /\ multi_waiter'.tasks = current_tasks(multi_waiter')

\* What wait_first returns is not empty and is the set of the keys whose
\* operation has terminated when it returns.
C30_Returns ==
    (WaitFirstStep /\ waiter_caller'.pc = "idle" /\ waiter_caller'.raised = "none")
    => /\ waiter_caller'.returned # {}
       /\ waiter_caller'.returned = Terminated(multi_waiter')

\* No step of wait_first touches an operation that is running: it stays the
\* task of its key, in the state it was in, entered in _tasks.
C30_PendingUntouched ==
    WaitFirstStep
    => \A i \in DOMAIN multi_waiter.objects :
          multi_waiter.objects[i].waiter \in Running(multi_waiter)
          => /\ multi_waiter'.objects[i] = multi_waiter.objects[i]
             /\ multi_waiter'.ops[multi_waiter.objects[i].waiter]
                    = multi_waiter.ops[multi_waiter.objects[i].waiter]
             /\ multi_waiter.objects[i].waiter \in multi_waiter'.tasks

\* C30: wait_first() starts every registered source that is not running,
\* returns a non-empty set holding exactly the keys whose operation has
\* terminated when it returns, and leaves every started and still pending
\* source untouched, so that the same operation is the one waited on in the
\* next wait_first() call.
C30_WaitFirst == [][C30_Starts /\ C30_Returns /\ C30_PendingUntouched]_vars

\* A second wait_first() has returned {k1}: k1's first operation was replaced
\* by its third task, while k2's operation of the first call is still pending.
C30_Witness ==
    /\ waiter_caller.op = "wait_first"
    /\ waiter_caller.pc = "idle"
    /\ waiter_caller.returned = {"k1"}
    /\ multi_waiter.objects = << [key |-> "k1", waiter |-> 3],
                                 [key |-> "k2", waiter |-> 2] >>
    /\ multi_waiter.ops[2].state = "pending"
    /\ multi_waiter.ops[3].state = "done"

\* ---------------------------------------------------------------------- C31
\* The start of a reset that covers `key`: reset() of every key or of a list
\* naming the key.
ResetOf(key) ==
    \E keys \in SUBSET WaiterKeys :
        /\ keys = {} \/ key \in keys
        /\ MultiWaiter_call("reset", TRUE, keys)

\* The source of `key` is done and the step leaves it so: the same task is
\* the task of the key and result(key) gives the same result.
C31_StaysDone(key) ==
    /\ key \in Terminated(multi_waiter')
    /\ MultiWaiter_result(multi_waiter', key) = MultiWaiter_result(multi_waiter, key)

\* The claim as stated: a completed source stays done, with the same result,
\* through every step that is not a reset for its key, a wait_first() call
\* included.
C31_Original ==
    [][\A key \in Terminated(multi_waiter) : ResetOf(key) \/ C31_StaysDone(key)]_vars

\* C31: a completed source stays done, with the same result available through
\* result(key), until the next wait_first() call or a reset for its key: each
\* of them replaces it by a new operation; no other step, a reset of other
\* keys included, touches it.
C31_UntilRestarted ==
    [][\A key \in Terminated(multi_waiter) :
          \/ ResetOf(key)
          \/ MultiWaiter_call("wait_first", FALSE, {})
          \/ C31_StaysDone(key)]_vars

\* reset("k2") has returned: k2 has a new task, and the operation of k1, done
\* since the wait_first() before it, is still the task of k1.
C31_Witness ==
    /\ waiter_caller.op = "reset"
    /\ waiter_caller.pc = "idle"
    /\ multi_waiter.objects = << [key |-> "k1", waiter |-> 1],
                                 [key |-> "k2", waiter |-> 3] >>
    /\ MultiWaiter_result(multi_waiter, "k1") = [value |-> 1, raised |-> "none"]

\* ---------------------------------------------------------------------- C32
\* cancel() has returned and no call was made since: the state in which an
\* in_multi_waiter block is left.
ScopeLeft == waiter_caller.op = "cancel" /\ waiter_caller.pc = "idle"

\* The operations that can still complete: started, not ended, cancel() not
\* called on their task.
StillPending(m) == {o \in DOMAIN m.ops : m.ops[o].state \in {"created", "pending"}}

C32_NoDequeueLeft ==
    \A a \in ActorIds :
        pc[a] \in {"done", "finished"} => waiters[a].get \notin {"created", "pending"}

\* ---------------------------------------------------------------------- C33
\* Every bind() scope opened on the context has ended.
NoScopeOpen == \A t \in BindTasks : bind_scopes[t] = << >>

\* C33, the claim as stated: once every bind scope opened on the context has
\* ended, the bindings of its logger are those before the first scope was
\* entered, also when the scopes of different tasks overlap and end in any
\* order.  (The logger has its initial bindings before the first scope, and
\* while the claim holds it has them whenever no scope is open.)
C33_Original == NoScopeOpen => context_log = NewLog

\* The scopes of a single task, which nest: under SpecNested the same
\* property holds.
NextNested ==
    \/ \E bindings \in Bindings : bind_enter("t1", bindings)
    \/ bind_exit("t1")

SpecNested == Init /\ [][NextNested]_vars

\* ---------------------------------------------------------------------- C34
\* The envelopes posted to actor a, in post order.
PostedTo(a) == SelectSeq([e \in 1..Len(env) |-> e], LAMBDA e : env[e].receiver = a)

\* The serve loop works on an envelope only when initialize() has returned
\* and initialize_event is set.
C34_NotBeforeInitialized ==
    \A e \in Envelopes :
        Dispatched(e) => /\ initialize_event[env[e].receiver]
                         /\ initialize_result[env[e].receiver] = "returned"

\* Until initialize() has ended, everything posted to the actor is in its
\* mailbox, in post order.
C34_StaysInMailbox ==
    \A a \in ActorIds :
        pc[a] \in {"created", "initialize"} => queue[a] = PostedTo(a)

\* The envelopes of an actor are dispatched in post order.
C34_InPostOrder ==
    \A e1, e2 \in Envelopes :
        (e1 < e2 /\ env[e1].receiver = env[e2].receiver /\ Dispatched(e2))
            => Dispatched(e1)

C34_DispatchedLater(i) ==
    /\ i \in Envelopes
    /\ Dispatched(i) \/ NotLive(env[i].receiver)

\* C34: an actor invokes no handler before its initialize() has returned and
\* initialize_event is set; the envelopes posted before or during initialize
\* stay in the mailbox, in post order, and are dispatched afterwards in that
\* order (each of them eventually, unless initialize raises or the actor is
\* stopped first).
C34_AfterInitialize ==
    /\ [](C34_NotBeforeInitialized /\ C34_StaysInMailbox /\ C34_InPostOrder)
    /\ \A i \in 1..MaxEnvelopes : [](i \in Envelopes => <>C34_DispatchedLater(i))

\* Two envelopes are waiting in the mailbox while initialize() is running.
C34_Witness ==
    \E a \in ActorIds :
        /\ pc[a] = "initialize"
        /\ queue[a] = << 1, 2 >>
        /\ ~Dispatched(1) /\ ~Dispatched(2)

\* ---------------------------------------------------------------------- C36
\* The claim as stated: initialize_exception is set before initialize_event,
\* so that no state has initialize failed, the event set and the exception
\* absent.
C36_Original ==
    \A a \in ActorIds :
        (initialize_result[a] = "raised" /\ initialize_event[a])
            => initialize_exception[a]

\* Wherever a task other than the serve task can run, a failed initialize
\* with the event set has its exception stashed, and no caller of
\* wait_until_initialized has returned normally from a failed initialize.
C36_StashedWhenSeen ==
    \A a \in ActorIds :
        /\ (initialize_result[a] = "raised" /\ initialize_event[a] /\ ~Uninterrupted)
              => initialize_exception[a]
        /\ initialize_result[a] = "raised" => wi[a].last # "returned"

\* C36: when initialize raises, initialize_event is set first and
\* initialize_exception right after it, in one uninterrupted run of the serve
\* task: between the two statements only the serve task goes on, so whenever
\* another task runs (a woken wait_until_initialized caller included) a failed
\* initialize with the event set has its exception present.
C36_EventThenException ==
    /\ []C36_StashedWhenSeen
    /\ [][Uninterrupted => \E a \in ActorIds : initialize_raises_stashes(a)]_vars

\* A caller that was waiting while initialize() failed was woken and raised.
C36_Witness ==
    \E a \in ActorIds :
        /\ initialize_result[a] = "raised"
        /\ initialize_event[a] /\ initialize_exception[a]
        /\ wi[a] = [st |-> "idle", last |-> "raised"]

\* ---------------------------------------------------------------------- C35
\* The step invokes a handler of actor a.
HandlerStarts(a) ==
    \E e \in Envelopes : env[e].receiver = a /\ calls'[e] = calls[e] + 1

\* wait_first() returns to the serve loop of actor a.
WaitFirstReturns(a) == pc[a] = "waiting" /\ pc'[a] # "waiting"

\* The serve task of actor a has left its loop.
LoopLeft(a) == pc[a] \in {"cancelling", "done", "finished"}

\* The claim as stated: once stop_event is set (no handler is running when
\* the loop invokes one), the serve loop invokes no further handler.
C35_Original ==
    [][\A a \in ActorIds : HandlerStarts(a) => ~stop_event[a]]_vars

\* C35: once the stop source of the serve loop has completed (its wait_stop
\* task has seen stop_event set) and the handler that was running has
\* finished, no further handler is invoked: the next wait_first() to return
\* reports the stop key and the loop breaks, whatever the mailbox holds; and
\* once stop_event is set the loop is eventually left.
C35_StopSourceDone ==
    /\ [][\A a \in ActorIds :
            /\ HandlerStarts(a) => waiters[a].stop # "done"
            /\ (WaitFirstReturns(a) /\ waiters[a].stop = "done") => LoopLeft(a)']_vars
    /\ \A a \in ActorIds : stop_event[a] ~> LoopLeft(a)

\* The loop was left on the stop key while an envelope was still in the
\* mailbox, undispatched, after an earlier envelope had been handled.
C35_Witness ==
    \E a \in ActorIds :
        /\ LoopLeft(a)
        /\ task_exception[a] = "none"
        /\ initialize_result[a] = "returned"
        /\ queue[a] = << 2 >>
        /\ calls[1] = 1 /\ ~Dispatched(2)

\* ---------------------------------------------------------------------- C38
\* The envelopes taken out of the mailbox of actor a.
Dequeued(a) == {e \in Envelopes : env[e].receiver = a} \ Keys(queue[a])

\* C38, the claim as stated: once the serve loop has been left, every envelope
\* that was taken out of the mailbox was passed to a handler or resolved as
\* unhandled.
C38_Original ==
    \A a \in ActorIds :
        LoopLeft(a) => \A e \in Dequeued(a) : Dispatched(e)

\* What holds: an envelope that was dequeued and never dispatched is the one
\* the last dequeue task returned, at most one for an actor.
C38_OnlyTheLastDequeued ==
    \A a \in ActorIds : \A e \in Dequeued(a) :
        ~Dispatched(e) => waiters[a].result = e

\* ---------------------------------------------------------------------- C37
\* Timer i was created with `repetitions` zero or negative and none of its
\* tells and sleeps raises.
NonPositiveTimer(i) == SoundTimer(i) /\ actlet[i].configuration.repetitions <= 0

\* C37, the claim as stated: for every repetitions <= 0 the count is
\* unbounded: the timer never returns on its own, so it sends no
\* ActletDoneMessage and its owner gets no TimerDoneMessage.
C37_Original ==
    \A i \in 1..Len(actlet) :
        NonPositiveTimer(i) =>
            /\ actlet[i].state \in {"running", "cancelled"}
            /\ DoneEnvelopesFrom(actlet[i].name) = {}

\* What the code does: with repetitions = 0 the timer never returns; with a
\* negative repetitions it returns at its first step, having told the
\* message once if now is true and not at all otherwise.
C37_ZeroUnboundedNegativeDone ==
    \A i \in 1..Len(actlet) :
        /\ (NonPositiveTimer(i) /\ actlet[i].configuration.repetitions = 0)
              => actlet[i].state \in {"running", "cancelled"}
        /\ (NonPositiveTimer(i) /\ actlet[i].configuration.repetitions < 0
                /\ actlet[i].state = "running")
              => actlet[i].at = "start" /\ actlet[i].sent = 0
        /\ (NonPositiveTimer(i) /\ actlet[i].configuration.repetitions < 0
                /\ actlet[i].state = "returned")
              => actlet[i].sent = IF actlet[i].configuration.now THEN 1 ELSE 0

\* ---------------------------------------------------------------------- C39
\* Every actlet whose task is still running is the actlet its name maps to.
RunningActletsRegistered ==
    \A i \in 1..Len(actlet) :
        actlet[i].state = "running" => actlets[actlet[i].owner][actlet[i].name] = i

\* The step handles an ActletDoneMessage and the handler raises (the KeyError
\* of `del self._actlets[context.sender]` is stored on the tracker).
ActletDoneHandlerRaises ==
    \E a \in ActorIds :
        /\ handle_actlet_done(a)
        /\ tracker'[received(a)].state = "exception"

\* C39, the claim as stated: handling an ActletDoneMessage, a stale one
\* included, does not raise and removes only the actlet that sent it, so that
\* every actlet task that is still running stays registered in the map.
C39_Original ==
    /\ []RunningActletsRegistered
    /\ [][~ActletDoneHandlerRaises]_vars

\* ---------------------------------------------------------------------- C40
\* The operations of `key` that can still complete.
LiveOperations(m, key) ==
    {o \in DOMAIN m.ops : m.ops[o].key = key /\ m.ops[o].state \in {"created", "pending"}}

\* At most one operation of a key can still complete, and it is the task of
\* the key's object.
C40_OneLivePerKey ==
    \A key \in WaiterKeys :
        /\ Cardinality(LiveOperations(multi_waiter, key)) <= 1
        /\ LiveOperations(multi_waiter, key) \subseteq current_tasks(multi_waiter)

\* _tasks holds exactly the tasks of the objects, each task being one of the
\* key of its object.
C40_TaskTable ==
    /\ multi_waiter.tasks = current_tasks(multi_waiter)
    /\ \A i \in DOMAIN multi_waiter.objects :
          multi_waiter.objects[i].waiter # NoTask
            => multi_waiter.ops[multi_waiter.objects[i].waiter].key
                   = multi_waiter.objects[i].key

\* C40, the claim as stated: after any sequence of add, wait_first, reset and
\* cancel a MultiWaiter holds at most one live operation per key and its task
\* table maps exactly the current operations to their keys.
C40_Original == C40_OneLivePerKey /\ C40_TaskTable

\* A wait_first() or reset() called after cancel() ended with the KeyError of
\* `self._tasks.pop(obj.waiter)`.
C40_KeyErrorAfterCancel ==
    waiter_caller.raised = "KeyError" /\ waiter_caller.pc = "idle"

====
